---- MODULE Spec2Model ----
(***************************************************************************)
(* Payment / booking reconciliation of the wedding-services backend        *)
(* (controllers/client/payment.js): the poll handler verifyPayment and the *)
(* webhook handler handleWebhook, run as concurrent request handlers over  *)
(* one database, one payment gateway and one email notifier.               *)
(*                                                                         *)
(* A handler is a sequence of steps; one step is the effect of one awaited *)
(* call (a database operation, the gateway request, an email) followed by  *)
(* the synchronous code up to the next await.  Other handlers may run      *)
(* between any two steps.                                                  *)
(***************************************************************************)
EXTENDS Integers, Sequences, FiniteSets, TLC

(***************************************************************************)
(* Bounds                                                                  *)
(***************************************************************************)
\* number of requests (polls and webhooks together) that arrive
MaxCalls == 2

Calls == 1..MaxCalls

(***************************************************************************)
(* Strings.  A status string of the gateway is a sequence of characters,   *)
(* so that String.prototype.toLowerCase is computed and not assumed.       *)
(***************************************************************************)
UpperCase == <<"A","B","C","D","E","F","G","H","I","J","K","L","M",
               "N","O","P","Q","R","S","T","U","V","W","X","Y","Z">>
LowerCase == <<"a","b","c","d","e","f","g","h","i","j","k","l","m",
               "n","o","p","q","r","s","t","u","v","w","x","y","z">>

LowerChar(ch) ==
  IF \E i \in DOMAIN UpperCase : UpperCase[i] = ch
    THEN LowerCase[CHOOSE i \in DOMAIN UpperCase : UpperCase[i] = ch]
    ELSE ch

ToLowerCase(s) == [i \in DOMAIN s |-> LowerChar(s[i])]

W_success  == <<"s","u","c","c","e","s","s">>
W_failed   == <<"f","a","i","l","e","d">>
W_fail     == <<"f","a","i","l">>
W_pending  == <<"p","e","n","d","i","n","g">>
W_refunded == <<"r","e","f","u","n","d","e","d">>

\* The gateway's view of a transaction, and the status strings under which
\* it reports each: every word other than success and pending tells of a
\* payment that did not go through.
GatewayOutcomes == {"pending", "success", "failure"}

StatusStringsOf ==
  [o \in GatewayOutcomes |->
     CASE o = "success" -> { W_success, <<"S","U","C","C","E","S","S">> }
       [] o = "pending" -> { W_pending, <<"P","e","n","d","i","n","g">> }
       [] o = "failure" -> { W_failed, <<"F","a","i","l","e","d">>, W_fail,
                            <<"F","A","I","L">>, W_refunded, <<>> }]

StatusStrings == UNION { StatusStringsOf[o] : o \in GatewayOutcomes }

(***************************************************************************)
(* The switch of verifyPayment and of handleWebhook: gateway status to     *)
(* PaymentStatus.                                                          *)
(***************************************************************************)
PaymentStatuses == {"PENDING", "COMPLETED", "FAILED", "REFUNDED"}
BookingStatuses == {"PENDING", "CONFIRMED", "COMPLETED", "CANCELLED"}

\* the switch without toLowerCase()
VerifyMapStatus_CaseSensitive(status) ==
  CASE status = W_success -> "COMPLETED"
    [] status = W_failed  -> "FAILED"
    [] status = W_fail    -> "FAILED"
    [] status = W_pending -> "PENDING"
    [] OTHER              -> "FAILED"

\* verifyPayment, the switch on status.toLowerCase()
VerifyMapStatus(status) ==
  LET s == ToLowerCase(status) IN
  CASE s = W_success -> "COMPLETED"
    [] s = W_failed  -> "FAILED"
    [] s = W_fail    -> "FAILED"
    [] s = W_pending -> "PENDING"
    [] OTHER         -> "FAILED"

\* handleWebhook, the switch on status.toLowerCase()
WebhookMapStatus(status) ==
  LET s == ToLowerCase(status) IN
  CASE s = W_success -> "COMPLETED"
    [] s = W_failed  -> "FAILED"
    [] s = W_fail    -> "FAILED"
    [] s = W_pending -> "PENDING"
    [] OTHER         -> "FAILED"

(***************************************************************************)
(* The data the handlers work on.  The database holds one payment, made    *)
(* by user "u1" for booking 1 under transaction reference "tx1"; an absent *)
(* identifier, reference or row is the falsy value of its type (0, "", a   *)
(* row with id 0).                                                         *)
(***************************************************************************)
Users      == {"u1", "u2"}
PayIds     == {1}
BookingIds == {1}
TxRefs     == {"tx1"}

\* identifiers and references a request may carry: missing, known, unknown
RequestPayIds == {0, 1, 9}
RequestTxRefs == {"", "tx1", "tx9"}

NoBooking == [id |-> 0, status |-> ""]
NoPayment == [id |-> 0, userId |-> "", status |-> "", booking |-> NoBooking]

\* the secret the gateway signs its webhooks with
GatewaySecret == "whsec"

\* HMAC-SHA256 as an ideal MAC: two tags are equal exactly when key and
\* message are; the message is JSON.stringify(req.body)
Hmac(key, body) == [key |-> key, tx_ref |-> body.tx_ref, status |-> body.status]

\* the chapa-signature header is absent
NoSignature == [key |-> "", tx_ref |-> "", status |-> <<>>]

(***************************************************************************)
(* JavaScript numbers.  amount * 0.1 and amount * 0.9 are products of IEEE  *)
(* 754 doubles, rounded to 53 significant bits (ties to even).  A double   *)
(* is mant * 2^exp, its mantissa a sequence of bits, lowest first, kept    *)
(* odd.  The amounts are far from overflow and from the subnormals.        *)
(***************************************************************************)
MantissaBits == 53

RECURSIVE BitsOfNat(_)
BitsOfNat(n) == IF n = 0 THEN <<>> ELSE <<n % 2>> \o BitsOfNat(n \div 2)

\* without the zeros above the highest 1
RECURSIVE Trim(_)
Trim(x) == IF x # <<>> /\ x[Len(x)] = 0 THEN Trim(SubSeq(x, 1, Len(x) - 1)) ELSE x

HexDigitBits(h) == <<h % 2, (h \div 2) % 2, (h \div 4) % 2, (h \div 8) % 2>>

\* the bits of a hexadecimal numeral, its digits given highest first
RECURSIVE BitsOfHex(_)
BitsOfHex(digits) ==
  IF digits = <<>> THEN <<>>
  ELSE BitsOfHex(Tail(digits)) \o HexDigitBits(Head(digits))

RECURSIVE AddBits(_, _, _)
AddBits(x, y, carry) ==
  IF x = <<>> /\ y = <<>> THEN (IF carry = 1 THEN <<1>> ELSE <<>>)
  ELSE LET a == IF x = <<>> THEN 0 ELSE Head(x)
           b == IF y = <<>> THEN 0 ELSE Head(y)
           s == a + b + carry
       IN  <<s % 2>> \o AddBits(IF x = <<>> THEN x ELSE Tail(x),
                                IF y = <<>> THEN y ELSE Tail(y), s \div 2)

ShiftLeft(x, k) == IF x = <<>> THEN x ELSE [i \in 1..k |-> 0] \o x

RECURSIVE MulBits(_, _)
MulBits(x, y) ==
  IF y = <<>> THEN <<>>
  ELSE AddBits(IF Head(y) = 1 THEN x ELSE <<>>, ShiftLeft(MulBits(x, Tail(y)), 1), 0)

\* the same number with an odd mantissa
RECURSIVE Canonical(_)
Canonical(d) ==
  IF d.mant = <<>> THEN [mant |-> <<>>, exp |-> 0]
  ELSE IF Head(d.mant) = 0 THEN Canonical([mant |-> Tail(d.mant), exp |-> d.exp + 1])
  ELSE d

\* round to nearest, ties to even
RoundBits(m, e) ==
  IF Len(m) <= MantissaBits THEN Canonical([mant |-> m, exp |-> e])
  ELSE LET k      == Len(m) - MantissaBits
           kept   == SubSeq(m, k + 1, Len(m))
           half   == m[k] = 1
           sticky == \E i \in 1..(k - 1) : m[i] = 1
           up     == half /\ (sticky \/ kept[1] = 1)
           r      == IF up THEN AddBits(kept, <<1>>, 0) ELSE kept
       IN  Canonical([mant |-> r, exp |-> e + k])

RoundToDouble(m, e) == RoundBits(Trim(m), e)

\* a * b
DoubleTimes(a, b) ==
  RoundToDouble(IF Len(a.mant) < Len(b.mant) THEN MulBits(b.mant, a.mant)
                                             ELSE MulBits(a.mant, b.mant),
                a.exp + b.exp)

\* a + b
DoublePlus(a, b) ==
  LET e == IF a.exp < b.exp THEN a.exp ELSE b.exp
  IN  RoundToDouble(AddBits(ShiftLeft(a.mant, a.exp - e),
                            ShiftLeft(b.mant, b.exp - e), 0), e)

\* the double of a natural number
NumberOf(n) == Canonical([mant |-> BitsOfNat(n), exp |-> 0])

\* the literal 0.1 = 0x1.999999999999Ap-4
Tenth ==
  Canonical([mant |-> Trim(BitsOfHex(<<1, 9, 9, 9, 9, 9, 9, 9, 9, 9, 9, 9, 9, 10>>)),
             exp  |-> -56])

\* the literal 0.9 = 0x1.CCCCCCCCCCCCDp-1
NineTenths ==
  Canonical([mant |-> Trim(BitsOfHex(<<1, 12, 12, 12, 12, 12, 12, 12, 12, 12, 12, 12, 12, 13>>)),
             exp  |-> -53])

\* split: { type: "percentage", subaccounts: [{ share: 10 }, { share: 90 }] }
AdminShare  == 10
VendorShare == 90

(***************************************************************************)
(* Data of initiatePayment                                                 *)
(***************************************************************************)
MaxMailTests == 2

MailTests == 1..MaxMailTests

\* the testEmail argument: absent, or an address
TestEmails == {"", "admin@example.com", "vendor@example.com"}

MaxInits    == 2
MaxPayments == 2

Inits == 1..MaxInits

\* u3 has no client profile
InitUsers == Users \cup {"u3"}

\* req.body.amount: missing, or a price
Amounts == {0, 10, 13}

VendorIds == {"v1", "v2"}

\* req.body.bookingId: known, unknown
RequestBookingIds == {1, 9}

\* prisma.client rows by userId ("" where the user has none)
ClientOfUser ==
  [u \in InitUsers |-> IF u = "u1" THEN "c1" ELSE IF u = "u2" THEN "c2" ELSE ""]

\* booking.clientId and booking.service.vendor.id
BookingClient == [b \in BookingIds |-> "c1"]
BookingVendor == [b \in BookingIds |-> "v1"]

\* tx_ref = `payment-${payment.id}-${uuid()}`: one fresh reference per payment
TxRefOfPayment == <<"tx1", "tx2", "tx3", "tx4">>

AdminAccount == [type |-> "ADMIN", accountId |-> "sub-admin"]
NoAccount    == [type |-> "", accountId |-> ""]
NoVendor     == [userId |-> "", chapaSubaccountId |-> "", status |-> ""]
NoCheckout   == [tx_ref |-> "", amount |-> 0, adminId |-> "", adminShare |-> 0,
                 vendorId |-> "", vendorShare |-> 0]

\* the service handlers
MaxSvcCalls == 2
SvcCalls == 1..MaxSvcCalls

\* Vendor.status
VendorStatuses == {"PENDING_APPROVAL", "APPROVED", "SUSPENDED"}

\* req.user.id of the service requests: the users of the two vendors, and a
\* user without a vendor profile
SvcUsers == {"w1", "w2", "w3"}

\* req.params.id and req.params.serviceId: known, known, unknown
RequestServiceIds == {"s1", "s2", "s9"}

\* ServiceCategory ids
CategoryIds == {"cat1"}

\* req.body and req.file of updateService: title ("" when absent), price (0
\* when absent), categoryId ("" when absent, "cat9" unknown), an image or not
UpdateBodies ==
  { [title |-> "Gold package", price |-> 250, categoryId |-> "cat1", file |-> TRUE],
    [title |-> "Gold package", price |-> 0,   categoryId |-> "",     file |-> FALSE],
    [title |-> "",             price |-> 0,   categoryId |-> "",     file |-> TRUE],
    [title |-> "",             price |-> -5,  categoryId |-> "",     file |-> TRUE],
    [title |-> "",             price |-> 0,   categoryId |-> "cat9", file |-> TRUE] }

NoService == [id |-> "", vendorId |-> "", name |-> "", price |-> 0,
              categoryId |-> "", image |-> ""]

\* the value of a property an object does not have
Undefined == "undefined"

\* the chat sockets
MaxSockets == 3
Sockets == 1..MaxSockets

VARIABLES
  payments,       \* Payment rows: id -> [userId, transactionId, status, bookingId, updatedAt]
  bookings,       \* Booking rows: id -> [status]
  gateway,        \* the gateway's outcome of each transaction
  webhookSecret,  \* process.env.CHAPA_WEBHOOK_SECRET ("" when unset)
  calls,          \* the request handlers: position, locals, effects, response
  vendors,        \* Vendor rows: id -> [userId, chapaSubaccountId ("" when unset), status]
  chapaSubaccounts, \* ChapaSubaccount rows: [type, accountId]
  inits,          \* the initiatePayment handlers: position, locals, effects, response
  env,            \* process.env: EMAIL_USER, EMAIL_PASSWORD ("" when unset)
  mailTests,      \* the testEmailConfiguration calls: position, outcomes, result
  services,       \* Service rows: id -> [vendorId, name, price, categoryId, image]
  files,          \* the image files under public/uploads/services
  svcCalls,       \* the service handlers: position, locals, effects, response
  isOnline,       \* User.isOnline of each user
  sockets         \* the chat sockets: user, connection state, pending query

vars == <<payments, bookings, gateway, webhookSecret, calls,
          vendors, chapaSubaccounts, inits, env, mailTests,
          services, files, svcCalls, isOnline, sockets>>

\* what testEmailConfiguration never touches
paymentVars == <<payments, bookings, gateway, webhookSecret, calls,
                 vendors, chapaSubaccounts, inits>>

\* what the payment handlers never touch
emailVars == <<env, mailTests>>

\* what verifyPayment and handleWebhook never touch
initiationVars == <<vendors, chapaSubaccounts, inits>>

\* what only the service handlers touch
serviceVars == <<services, files, svcCalls>>

\* what only the chat server touches
chatVars == <<isOnline, sockets>>

IdleCall ==
  [ kind |-> "none", pc |-> "idle",
    userId |-> "", paymentId |-> 0, tx_ref |-> "",
    signature |-> NoSignature, status |-> <<>>,
    payment |-> NoPayment, paymentStatus |-> "",
    updatedPayment |-> NoPayment,
    log |-> <<>>, resp |-> 0, respStatus |-> "" ]

\* EMAIL_USER and EMAIL_PASSWORD both set
ConfiguredEnv == [EMAIL_USER |-> "mailer@example.com", EMAIL_PASSWORD |-> "app-password"]

NoResult == [success |-> FALSE, stage |-> ""]

IdleMailTest ==
  [ pc |-> "idle", testEmail |-> "",
    created |-> "", verified |-> "", sent |-> "",
    stages |-> <<>>, result |-> NoResult ]

\* every vendor with its payout subaccount
ConfiguredVendors ==
  [v \in VendorIds |->
     IF v = "v1" THEN [userId |-> "w1", chapaSubaccountId |-> "sub-v1", status |-> "APPROVED"]
                 ELSE [userId |-> "w2", chapaSubaccountId |-> "sub-v2", status |-> "APPROVED"]]

\* the Service rows at the start: one of each vendor, the first with an image
StoredServices ==
  [s \in {"s1", "s2"} |->
     IF s = "s1"
       THEN [vendorId |-> "v1", name |-> "Hall", price |-> 100, categoryId |-> "cat1",
             image |-> "/uploads/services/hall.png"]
       ELSE [vendorId |-> "v2", name |-> "Band", price |-> 80, categoryId |-> "",
             image |-> ""]]

StoredFiles == {"/uploads/services/hall.png"}

IdleSvcCall ==
  [ op |-> "none", pc |-> "idle",
    userId |-> "", serviceId |-> "",
    title |-> "", price |-> 0, categoryId |-> "", file |-> FALSE,
    vendorId |-> "", service |-> NoService,
    log |-> <<>>, resp |-> 0, body |-> NoService ]

\* no socket has connected yet
NoSocket == [user |-> "", state |-> "none", markOnline |-> "none"]

\* no service request and no chat connection yet
ServicesIdle ==
  /\ services = StoredServices
  /\ files = StoredFiles
  /\ svcCalls = [c \in SvcCalls |-> IdleSvcCall]

ChatIdle ==
  /\ isOnline = [u \in Users |-> FALSE]
  /\ sockets = [s \in Sockets |-> NoSocket]

IdleInit ==
  [ pc |-> "idle",
    userId |-> "", amount |-> 0, vendorId |-> "", bookingId |-> 0,
    client |-> "", vendor |-> NoVendor, adminAccount |-> NoAccount,
    paymentId |-> 0, tx_ref |-> "", checkout |-> NoCheckout,
    log |-> <<>>, resp |-> 0 ]

Init ==
  /\ payments = [p \in PayIds |->
                   [userId |-> "u1", transactionId |-> "tx1", status |-> "PENDING",
                    bookingId |-> 1, updatedAt |-> 0]]
  /\ bookings = [b \in BookingIds |-> [status |-> "PENDING"]]
  /\ gateway = [t \in TxRefs |-> "pending"]
  /\ webhookSecret \in {"", GatewaySecret}
  /\ calls = [c \in Calls |-> IdleCall]
  /\ vendors = ConfiguredVendors
  /\ chapaSubaccounts = {AdminAccount}
  /\ inits = [i \in Inits |-> IdleInit]
  /\ env = ConfiguredEnv
  /\ mailTests = [m \in MailTests |-> IdleMailTest]
  /\ ServicesIdle /\ ChatIdle

(***************************************************************************)
(* Database reads (prisma find* with include: { booking: true })           *)
(***************************************************************************)
BookingOf(p) ==
  IF payments[p].bookingId \in DOMAIN bookings
    THEN [id |-> payments[p].bookingId, status |-> bookings[payments[p].bookingId].status]
    ELSE NoBooking

PaymentWithBooking(p) ==
  [id |-> p, userId |-> payments[p].userId, status |-> payments[p].status,
   booking |-> BookingOf(p)]

\* prisma.payment.findUnique({ where: { id } })
FindUniquePayment(id) ==
  IF id \in DOMAIN payments THEN PaymentWithBooking(id) ELSE NoPayment

\* prisma.payment.findFirst({ where: { transactionId } })
FindFirstPayment(tx_ref) ==
  IF \E p \in DOMAIN payments : payments[p].transactionId = tx_ref
    THEN PaymentWithBooking(CHOOSE p \in DOMAIN payments :
                              /\ payments[p].transactionId = tx_ref
                              /\ \A q \in DOMAIN payments :
                                   payments[q].transactionId = tx_ref => p <= q)
    ELSE NoPayment

\* the rows after prisma.payment.update({ where: { id }, data: { status, updatedAt: new Date() } })
PaymentsAfterUpdate(id, status) ==
  [payments EXCEPT ![id].status = status, ![id].updatedAt = @ + 1]

\* the rows after prisma.booking.update({ where: { id }, data: { status: "CONFIRMED" } })
BookingsAfterConfirm(id) ==
  [bookings EXCEPT ![id].status = "CONFIRMED"]

(***************************************************************************)
(* Requests                                                                *)
(***************************************************************************)
InFlight(c) == calls[c].pc \notin {"idle", "done"}
Arrived(c)  == calls[c].pc # "idle"

\* requests are numbered in the order they arrive
NextToArrive(c) == /\ ~Arrived(c)
                   /\ \A d \in Calls : d < c => Arrived(d)

Respond(c, code) ==
  calls' = [calls EXCEPT ![c].pc = "done", ![c].resp = code]


\* what a handler did to the world, in order: the row or the payment it
\* acted on, and the value written (for an email, whether it threw)
Effect(op, id, arg) == [op |-> op, id |-> id, arg |-> arg]

Logged(c, op, id, arg) == Append(calls[c].log, Effect(op, id, arg))

(***************************************************************************)
(* verifyPayment: the poll                                                 *)
(***************************************************************************)
\* the validation without the test of tx_ref
VerifyInputMissing_PaymentIdOnly(paymentId, tx_ref) == paymentId = 0

\* if (!paymentId || !tx_ref)
VerifyInputMissing(paymentId, tx_ref) == paymentId = 0 \/ tx_ref = ""

\* the ownership check left out
VerifyNotOwner_Unchecked(payment, userId) == FALSE

\* if (payment.userId !== userId)
VerifyNotOwner(payment, userId) == payment.userId # userId

\* the confirmation without the test of paymentStatus
VerifyShouldConfirm_AnyStatus(paymentStatus, payment) ==
  payment.booking.status = "PENDING"

\* the confirmation without the PENDING guard
VerifyShouldConfirm_AnyBooking(paymentStatus, payment) ==
  paymentStatus = "COMPLETED" /\ payment.booking.id # 0

\* if (paymentStatus === "COMPLETED" && payment.booking?.status === "PENDING")
VerifyShouldConfirm(paymentStatus, payment) ==
  paymentStatus = "COMPLETED" /\ payment.booking.status = "PENDING"

\* the notification under the guard of the webhook: only for a PENDING booking
VerifyShouldNotify_OnlyPending(paymentStatus, updatedPayment) ==
  paymentStatus = "COMPLETED" /\ updatedPayment.booking.status = "PENDING"

\* if (paymentStatus === "COMPLETED" && updatedPayment.booking)
VerifyShouldNotify(paymentStatus, updatedPayment) ==
  paymentStatus = "COMPLETED" /\ updatedPayment.booking.id # 0

\* the request arrives; input validation
VerifyPayment(c, userId, paymentId, tx_ref) ==
  /\ NextToArrive(c)
  /\ LET call == [IdleCall EXCEPT !.kind = "poll", !.userId = userId,
                                  !.paymentId = paymentId, !.tx_ref = tx_ref]
     IN  calls' = [calls EXCEPT ![c] =
           IF VerifyInputMissing(paymentId, tx_ref)
             THEN [call EXCEPT !.pc = "done", !.resp = 400]
             ELSE [call EXCEPT !.pc = "find"]]
  /\ UNCHANGED <<payments, bookings, gateway, webhookSecret>>

\* await prisma.payment.findUnique; existence and ownership checks
VerifyFindPayment(c) ==
  /\ calls[c].kind = "poll" /\ calls[c].pc = "find"
  /\ LET payment == FindUniquePayment(calls[c].paymentId)
     IN  calls' = [calls EXCEPT ![c] =
           IF payment.id = 0
             THEN [@ EXCEPT !.pc = "done", !.resp = 404]
           ELSE IF VerifyNotOwner(payment, calls[c].userId)
             THEN [@ EXCEPT !.pc = "done", !.resp = 403]
           ELSE [@ EXCEPT !.pc = "gateway", !.payment = payment]]
  /\ UNCHANGED <<payments, bookings, gateway, webhookSecret>>

\* the emails ahead of the writes: a payment mapped to COMPLETED goes
\* straight to the notifier
VerifyGatewayAnswers_NotifyFirst(c) ==
  /\ calls[c].kind = "poll" /\ calls[c].pc = "gateway"
  /\ calls[c].tx_ref \in DOMAIN gateway
  /\ \E status \in StatusStringsOf[gateway[calls[c].tx_ref]] :
       calls' = [calls EXCEPT ![c].status = status,
                              ![c].paymentStatus = VerifyMapStatus(status),
                              ![c].pc = IF VerifyMapStatus(status) = "COMPLETED"
                                          THEN "mail1" ELSE "updatePayment"]
  /\ UNCHANGED <<payments, bookings, gateway, webhookSecret>>

\* await chapa.get(`/transaction/verify/${tx_ref}`) answers; the status is mapped
VerifyGatewayAnswers(c) ==
  /\ calls[c].kind = "poll" /\ calls[c].pc = "gateway"
  /\ calls[c].tx_ref \in DOMAIN gateway
  /\ \E status \in StatusStringsOf[gateway[calls[c].tx_ref]] :
       calls' = [calls EXCEPT ![c].status = status,
                              ![c].paymentStatus = VerifyMapStatus(status),
                              ![c].pc = "updatePayment"]
  /\ UNCHANGED <<payments, bookings, gateway, webhookSecret>>

\* the catch of initiatePayment in place of that of verifyPayment: the
\* payment is marked FAILED before the 500
VerifyGatewayThrows_MarksFailed(c) ==
  /\ calls[c].kind = "poll" /\ calls[c].pc = "gateway"
  /\ payments' = PaymentsAfterUpdate(calls[c].payment.id, "FAILED")
  /\ calls' = [calls EXCEPT ![c].pc = "done", ![c].resp = 500,
                            ![c].log = Logged(c, "payment.update", calls[c].payment.id, "FAILED")]
  /\ UNCHANGED <<bookings, gateway, webhookSecret>>

\* await chapa.get throws (unknown reference, network error, timeout): catch, 500
VerifyGatewayThrows(c) ==
  /\ calls[c].kind = "poll" /\ calls[c].pc = "gateway"
  /\ Respond(c, 500)
  /\ UNCHANGED <<payments, bookings, gateway, webhookSecret>>

\* await prisma.payment.update({ status: paymentStatus, updatedAt })
VerifyUpdatePayment(c) ==
  /\ calls[c].kind = "poll" /\ calls[c].pc = "updatePayment"
  /\ payments' = PaymentsAfterUpdate(calls[c].payment.id, calls[c].paymentStatus)
  /\ calls' = [calls EXCEPT
       ![c].log = Logged(c, "payment.update", calls[c].payment.id, calls[c].paymentStatus),
       ![c].pc = IF VerifyShouldConfirm(calls[c].paymentStatus, calls[c].payment)
                   THEN "updateBooking" ELSE "refetch"]
  /\ UNCHANGED <<bookings, gateway, webhookSecret>>

\* await prisma.booking.update({ status: "CONFIRMED" })
VerifyUpdateBooking(c) ==
  /\ calls[c].kind = "poll" /\ calls[c].pc = "updateBooking"
  /\ bookings' = BookingsAfterConfirm(calls[c].payment.booking.id)
  /\ calls' = [calls EXCEPT ![c].log = Logged(c, "booking.update", calls[c].payment.booking.id, "CONFIRMED"),
                            ![c].pc = "refetch"]
  /\ UNCHANGED <<payments, gateway, webhookSecret>>

\* const updatedPayment = await prisma.payment.findUnique(...); without a
\* notification the response follows at once
VerifyRefetch(c) ==
  /\ calls[c].kind = "poll" /\ calls[c].pc = "refetch"
  /\ LET updatedPayment == FindUniquePayment(calls[c].payment.id)
     IN  calls' = [calls EXCEPT ![c] =
           IF VerifyShouldNotify(calls[c].paymentStatus, updatedPayment)
             THEN [@ EXCEPT !.updatedPayment = updatedPayment, !.pc = "mail1"]
             ELSE [@ EXCEPT !.updatedPayment = updatedPayment, !.pc = "done",
                            !.resp = 200, !.respStatus = calls[c].paymentStatus]]
  /\ UNCHANGED <<payments, bookings, gateway, webhookSecret>>

\* await sendPaymentCompletionToVendor(...); a throw is caught and logged,
\* the second email is then skipped
VerifySendCompletion(c) ==
  /\ calls[c].kind = "poll" /\ calls[c].pc = "mail1"
  /\ \E sent \in BOOLEAN :
       calls' = [calls EXCEPT ![c] =
         IF sent
           THEN [@ EXCEPT !.log = Logged(c, "sendPaymentCompletionToVendor", calls[c].payment.id, "sent"),
                          !.pc = "mail2"]
           ELSE [@ EXCEPT !.log = Logged(c, "sendPaymentCompletionToVendor", calls[c].payment.id, "threw"),
                          !.pc = "done", !.resp = 200,
                          !.respStatus = calls[c].paymentStatus]]
  /\ UNCHANGED <<payments, bookings, gateway, webhookSecret>>

\* the second email outside the try: its failure reaches the outer catch
VerifySendNewBooking_Uncaught(c) ==
  /\ calls[c].kind = "poll" /\ calls[c].pc = "mail2"
  /\ \E sent \in BOOLEAN :
       calls' = [calls EXCEPT ![c] =
         IF sent
           THEN [@ EXCEPT !.log = Logged(c, "sendNewBookingToVendor", calls[c].payment.id, "sent"),
                          !.pc = "done", !.resp = 200,
                          !.respStatus = calls[c].paymentStatus]
           ELSE [@ EXCEPT !.log = Logged(c, "sendNewBookingToVendor", calls[c].payment.id, "threw"),
                          !.pc = "done", !.resp = 500]]
  /\ UNCHANGED <<payments, bookings, gateway, webhookSecret>>

\* await sendNewBookingToVendor(...); then res.status(200).json(...)
VerifySendNewBooking(c) ==
  /\ calls[c].kind = "poll" /\ calls[c].pc = "mail2"
  /\ \E sent \in BOOLEAN :
       calls' = [calls EXCEPT ![c] =
         [@ EXCEPT !.log = Logged(c, "sendNewBookingToVendor", calls[c].payment.id,
                                  IF sent THEN "sent" ELSE "threw"),
                   !.pc = "done", !.resp = 200,
                   !.respStatus = calls[c].paymentStatus]]
  /\ UNCHANGED <<payments, bookings, gateway, webhookSecret>>


(***************************************************************************)
(* handleWebhook                                                           *)
(***************************************************************************)
Body(tx_ref, status) == [tx_ref |-> tx_ref, status |-> status]

\* The webhook requests that can arrive.  Only the gateway holds
\* GatewaySecret, so a body carrying its genuine signature was issued by
\* the gateway: for a transaction it knows, it reports the settled status.
\* Anyone can send an unsigned body, a body signed under a guessed key or
\* under the empty key, or a body altered after the gateway signed it.
GenuineBodies ==
  UNION { { Body(t, s) : s \in StatusStringsOf[gateway[t]] } :
          t \in {t \in DOMAIN gateway : gateway[t] # "pending"} }

WebhookRequests ==
  { [body |-> b, signature |-> Hmac(GatewaySecret, b)] : b \in GenuineBodies }
  \cup
  { [body |-> Body("", W_success),    signature |-> Hmac(GatewaySecret, Body("", W_success))],
    [body |-> Body("tx9", W_success), signature |-> Hmac(GatewaySecret, Body("tx9", W_success))],
    [body |-> Body("tx1", W_success), signature |-> NoSignature],
    [body |-> Body("tx1", W_success), signature |-> Hmac("guess", Body("tx1", W_success))],
    [body |-> Body("tx1", W_success), signature |-> Hmac("", Body("tx1", W_success))],
    [body |-> Body("tx1", W_success), signature |-> Hmac(GatewaySecret, Body("tx1", W_failed))] }

\* the test of the header alone
WebhookSignatureMissing_HeaderOnly(chapaSignature, secret) ==
  chapaSignature = NoSignature

\* if (!chapaSignature || !webhookSecret)
WebhookSignatureMissing(chapaSignature, secret) ==
  chapaSignature = NoSignature \/ secret = ""

\* a comparison that checks the key and not the signed body
WebhookSignatureInvalid_KeyOnly(chapaSignature, secret, body) ==
  secret # chapaSignature.key

\* if (hash !== chapaSignature), hash the HMAC of JSON.stringify(req.body)
WebhookSignatureInvalid(chapaSignature, secret, body) ==
  Hmac(secret, body) # chapaSignature

\* the confirmation without the test of paymentStatus
WebhookShouldConfirm_AnyStatus(paymentStatus, updatedPayment) ==
  updatedPayment.booking.status = "PENDING"

\* the confirmation without the PENDING guard
WebhookShouldConfirm_AnyBooking(paymentStatus, updatedPayment) ==
  paymentStatus = "COMPLETED" /\ updatedPayment.booking.id # 0

\* if (paymentStatus === "COMPLETED" && updatedPayment.booking?.status === "PENDING")
WebhookShouldConfirm(paymentStatus, updatedPayment) ==
  paymentStatus = "COMPLETED" /\ updatedPayment.booking.status = "PENDING"

\* the request arrives; signature check, then the tx_ref check
HandleWebhook(c, req) ==
  /\ NextToArrive(c)
  /\ LET call == [IdleCall EXCEPT !.kind = "webhook", !.signature = req.signature,
                                  !.tx_ref = req.body.tx_ref, !.status = req.body.status]
     IN  calls' = [calls EXCEPT ![c] =
           IF WebhookSignatureMissing(req.signature, webhookSecret)
             THEN [call EXCEPT !.pc = "done", !.resp = 401]
           ELSE IF WebhookSignatureInvalid(req.signature, webhookSecret, req.body)
             THEN [call EXCEPT !.pc = "done", !.resp = 401]
           ELSE IF req.body.tx_ref = ""
             THEN [call EXCEPT !.pc = "done", !.resp = 400]
           ELSE [call EXCEPT !.pc = "find"]]
  /\ UNCHANGED <<payments, bookings, gateway, webhookSecret>>

\* await prisma.payment.findFirst({ where: { transactionId: tx_ref } });
\* the status is mapped
WebhookFindPayment(c) ==
  /\ calls[c].kind = "webhook" /\ calls[c].pc = "find"
  /\ LET payment == FindFirstPayment(calls[c].tx_ref)
     IN  calls' = [calls EXCEPT ![c] =
           IF payment.id = 0
             THEN [@ EXCEPT !.pc = "done", !.resp = 404]
             ELSE [@ EXCEPT !.payment = payment,
                            !.paymentStatus = WebhookMapStatus(calls[c].status),
                            !.pc = "updatePayment"]]
  /\ UNCHANGED <<payments, bookings, gateway, webhookSecret>>

\* const updatedPayment = await prisma.payment.update({ ..., include: { booking } });
\* without a confirmation the response follows at once
WebhookUpdatePayment(c) ==
  /\ calls[c].kind = "webhook" /\ calls[c].pc = "updatePayment"
  /\ payments' = PaymentsAfterUpdate(calls[c].payment.id, calls[c].paymentStatus)
  /\ LET updatedPayment ==
           [id |-> calls[c].payment.id,
            userId |-> payments[calls[c].payment.id].userId,
            status |-> calls[c].paymentStatus,
            booking |-> BookingOf(calls[c].payment.id)]
     IN  calls' = [calls EXCEPT ![c] =
           IF WebhookShouldConfirm(calls[c].paymentStatus, updatedPayment)
             THEN [@ EXCEPT !.updatedPayment = updatedPayment,
                            !.log = Logged(c, "payment.update", calls[c].payment.id, calls[c].paymentStatus),
                            !.pc = "updateBooking"]
             ELSE [@ EXCEPT !.updatedPayment = updatedPayment,
                            !.log = Logged(c, "payment.update", calls[c].payment.id, calls[c].paymentStatus),
                            !.pc = "done", !.resp = 200]]
  /\ UNCHANGED <<bookings, gateway, webhookSecret>>

\* await prisma.booking.update({ status: "CONFIRMED" })
WebhookUpdateBooking(c) ==
  /\ calls[c].kind = "webhook" /\ calls[c].pc = "updateBooking"
  /\ bookings' = BookingsAfterConfirm(calls[c].updatedPayment.booking.id)
  /\ calls' = [calls EXCEPT ![c].log = Logged(c, "booking.update", calls[c].updatedPayment.booking.id, "CONFIRMED"),
                            ![c].pc = "mail1"]
  /\ UNCHANGED <<payments, gateway, webhookSecret>>

\* await sendPaymentCompletionToVendor(...); a throw is caught and logged,
\* the second email is then skipped
WebhookSendCompletion(c) ==
  /\ calls[c].kind = "webhook" /\ calls[c].pc = "mail1"
  /\ \E sent \in BOOLEAN :
       calls' = [calls EXCEPT ![c] =
         IF sent
           THEN [@ EXCEPT !.log = Logged(c, "sendPaymentCompletionToVendor", calls[c].payment.id, "sent"),
                          !.pc = "mail2"]
           ELSE [@ EXCEPT !.log = Logged(c, "sendPaymentCompletionToVendor", calls[c].payment.id, "threw"),
                          !.pc = "done", !.resp = 200]]
  /\ UNCHANGED <<payments, bookings, gateway, webhookSecret>>

\* await sendNewBookingToVendor(...); then res.status(200).send(...)
WebhookSendNewBooking(c) ==
  /\ calls[c].kind = "webhook" /\ calls[c].pc = "mail2"
  /\ \E sent \in BOOLEAN :
       calls' = [calls EXCEPT ![c] =
         [@ EXCEPT !.log = Logged(c, "sendNewBookingToVendor", calls[c].payment.id,
                                  IF sent THEN "sent" ELSE "threw"),
                   !.pc = "done", !.resp = 200]]
  /\ UNCHANGED <<payments, bookings, gateway, webhookSecret>>

(***************************************************************************)
(* initiatePayment                                                         *)
(***************************************************************************)
InitArrived(i) == inits[i].pc # "idle"

InitNextToArrive(i) == /\ ~InitArrived(i)
                       /\ \A j \in Inits : j < i => InitArrived(j)

\* res.status(code); throw new Error(...)
InitRespond(i, code) ==
  inits' = [inits EXCEPT ![i].pc = "done", ![i].resp = code]

InitLogged(i, op, id, arg) == Append(inits[i].log, Effect(op, id, arg))

\* the validation without the test of amount
InitiateInputMissing_AmountUnchecked(amount, vendorId, bookingId, userId) ==
  vendorId = "" \/ bookingId = 0 \/ userId = ""

\* if (!amount || !vendorId || !bookingId || !userId)
InitiateInputMissing(amount, vendorId, bookingId, userId) ==
  amount = 0 \/ vendorId = "" \/ bookingId = 0 \/ userId = ""

\* prisma.chapaSubaccount.findFirst({ where: { type: "ADMIN" } })
FindAdminAccount ==
  IF \E a \in chapaSubaccounts : a.type = "ADMIN"
    THEN CHOOSE a \in chapaSubaccounts : a.type = "ADMIN"
    ELSE NoAccount

\* the check with the admin account left out
AccountsNotConfigured_VendorOnly(vendor, adminAccount) ==
  vendor.chapaSubaccountId = ""

\* if (!vendor?.chapaSubaccountId || !adminAccount)
AccountsNotConfigured(vendor, adminAccount) ==
  vendor.chapaSubaccountId = "" \/ adminAccount = NoAccount

\* the splits with the percentages exchanged
NewPayment_SplitsExchanged(userId, vendorId, bookingId, clientId, amount) ==
  [ userId |-> userId, transactionId |-> "", status |-> "PENDING",
    bookingId |-> bookingId, updatedAt |-> 0,
    amount |-> NumberOf(amount),
    adminSplit  |-> DoubleTimes(NumberOf(amount), NineTenths),
    vendorSplit |-> DoubleTimes(NumberOf(amount), Tenth),
    vendorId |-> vendorId, clientId |-> clientId ]

\* data of prisma.payment.create
NewPayment(userId, vendorId, bookingId, clientId, amount) ==
  [ userId |-> userId, transactionId |-> "", status |-> "PENDING",
    bookingId |-> bookingId, updatedAt |-> 0,
    amount |-> NumberOf(amount),
    adminSplit  |-> DoubleTimes(NumberOf(amount), Tenth),
    vendorSplit |-> DoubleTimes(NumberOf(amount), NineTenths),
    vendorId |-> vendorId, clientId |-> clientId ]

\* the body of chapa.post("/transaction/initialize", ...)
CheckoutRequest(tx_ref, amount, adminAccount, vendor) ==
  [ tx_ref |-> tx_ref, amount |-> amount,
    adminId  |-> adminAccount.accountId,    adminShare  |-> AdminShare,
    vendorId |-> vendor.chapaSubaccountId,  vendorShare |-> VendorShare ]

\* the request arrives; input validation
InitiatePayment(i, userId, amount, vendorId, bookingId) ==
  /\ InitNextToArrive(i)
  /\ LET call == [IdleInit EXCEPT !.userId = userId, !.amount = amount,
                                  !.vendorId = vendorId, !.bookingId = bookingId]
     IN  inits' = [inits EXCEPT ![i] =
           IF InitiateInputMissing(amount, vendorId, bookingId, userId)
             THEN [call EXCEPT !.pc = "done", !.resp = 400]
             ELSE [call EXCEPT !.pc = "findClient"]]
  /\ UNCHANGED <<payments, bookings, gateway, webhookSecret, calls, vendors, chapaSubaccounts>>

\* await prisma.client.findUnique({ where: { userId } })
InitiateFindClient(i) ==
  /\ inits[i].pc = "findClient"
  /\ LET client == ClientOfUser[inits[i].userId]
     IN  inits' = [inits EXCEPT ![i] =
           IF client = ""
             THEN [@ EXCEPT !.pc = "done", !.resp = 400]
             ELSE [@ EXCEPT !.client = client, !.pc = "findBooking"]]
  /\ UNCHANGED <<payments, bookings, gateway, webhookSecret, calls, vendors, chapaSubaccounts>>

\* await prisma.booking.findUnique(...); existence, ownership and vendor checks
InitiateFindBooking(i) ==
  /\ inits[i].pc = "findBooking"
  /\ LET b == inits[i].bookingId
     IN  IF b \notin DOMAIN bookings THEN InitRespond(i, 404)
         ELSE IF BookingClient[b] # inits[i].client THEN InitRespond(i, 403)
         ELSE IF BookingVendor[b] # inits[i].vendorId THEN InitRespond(i, 400)
         ELSE inits' = [inits EXCEPT ![i].pc = "findVendor"]
  /\ UNCHANGED <<payments, bookings, gateway, webhookSecret, calls, vendors, chapaSubaccounts>>

\* await prisma.vendor.findUnique({ where: { id: vendorId } })
InitiateFindVendor(i) ==
  /\ inits[i].pc = "findVendor"
  /\ inits' = [inits EXCEPT
       ![i].vendor = IF inits[i].vendorId \in DOMAIN vendors
                       THEN vendors[inits[i].vendorId] ELSE NoVendor,
       ![i].pc = "findAdmin"]
  /\ UNCHANGED <<payments, bookings, gateway, webhookSecret, calls, vendors, chapaSubaccounts>>

\* await prisma.chapaSubaccount.findFirst(...); the accounts check
InitiateFindAdmin(i) ==
  /\ inits[i].pc = "findAdmin"
  /\ LET adminAccount == FindAdminAccount
     IN  inits' = [inits EXCEPT ![i] =
           IF AccountsNotConfigured(inits[i].vendor, adminAccount)
             THEN [@ EXCEPT !.pc = "done", !.resp = 500]
             ELSE [@ EXCEPT !.adminAccount = adminAccount, !.pc = "create"]]
  /\ UNCHANGED <<payments, bookings, gateway, webhookSecret, calls, vendors, chapaSubaccounts>>

\* await prisma.payment.create({ data: { ..., status: "PENDING", ... } })
InitiateCreatePayment(i) ==
  /\ inits[i].pc = "create"
  /\ Len(payments) < MaxPayments
  /\ LET id == Len(payments) + 1
     IN  /\ payments' = Append(payments,
                               NewPayment(inits[i].userId, inits[i].vendorId,
                                          inits[i].bookingId, inits[i].client,
                                          inits[i].amount))
         /\ inits' = [inits EXCEPT ![i].paymentId = id,
                                   ![i].tx_ref = TxRefOfPayment[id],
                                   ![i].log = InitLogged(i, "payment.create", id, "PENDING"),
                                   ![i].pc = "checkout"]
  /\ UNCHANGED <<bookings, gateway, webhookSecret, calls, vendors, chapaSubaccounts>>

\* await chapa.post("/transaction/initialize", ...) answers: the gateway
\* holds the transaction from now on
InitiateCheckoutAnswers(i) ==
  /\ inits[i].pc = "checkout"
  /\ gateway' = [t \in DOMAIN gateway \cup {inits[i].tx_ref} |->
                   IF t = inits[i].tx_ref THEN "pending" ELSE gateway[t]]
  /\ inits' = [inits EXCEPT
       ![i].checkout = CheckoutRequest(inits[i].tx_ref, inits[i].amount,
                                       inits[i].adminAccount, inits[i].vendor),
       ![i].log = InitLogged(i, "chapa.post", inits[i].paymentId, "answered"),
       ![i].pc = "saveTxRef"]
  /\ UNCHANGED <<payments, bookings, webhookSecret, calls, vendors, chapaSubaccounts>>

\* await chapa.post throws (the gateway refuses, network error): to the catch
InitiateCheckoutThrows(i) ==
  /\ inits[i].pc = "checkout"
  /\ inits' = [inits EXCEPT
       ![i].checkout = CheckoutRequest(inits[i].tx_ref, inits[i].amount,
                                       inits[i].adminAccount, inits[i].vendor),
       ![i].log = InitLogged(i, "chapa.post", inits[i].paymentId, "threw"),
       ![i].pc = "markFailed"]
  /\ UNCHANGED <<payments, bookings, gateway, webhookSecret, calls, vendors, chapaSubaccounts>>

\* the update writing a status next to the transactionId
InitiateSaveTxRef_Completes(i) ==
  /\ inits[i].pc = "saveTxRef"
  /\ payments' = [payments EXCEPT ![inits[i].paymentId].transactionId = inits[i].tx_ref,
                                  ![inits[i].paymentId].status = "COMPLETED",
                                  ![inits[i].paymentId].updatedAt = @ + 1]
  /\ inits' = [inits EXCEPT
       ![i].log = InitLogged(i, "payment.update", inits[i].paymentId, "transactionId"),
       ![i].pc = "done", ![i].resp = 200]
  /\ UNCHANGED <<bookings, gateway, webhookSecret, calls, vendors, chapaSubaccounts>>

\* await prisma.payment.update({ data: { transactionId: tx_ref } }); then 200
InitiateSaveTxRef(i) ==
  /\ inits[i].pc = "saveTxRef"
  /\ payments' = [payments EXCEPT ![inits[i].paymentId].transactionId = inits[i].tx_ref,
                                  ![inits[i].paymentId].updatedAt = @ + 1]
  /\ inits' = [inits EXCEPT
       ![i].log = InitLogged(i, "payment.update", inits[i].paymentId, "transactionId"),
       ![i].pc = "done", ![i].resp = 200]
  /\ UNCHANGED <<bookings, gateway, webhookSecret, calls, vendors, chapaSubaccounts>>

\* the catch without its update: the row stays PENDING
InitiateMarkFailed_RowLeft(i) ==
  /\ inits[i].pc = "markFailed"
  /\ inits' = [inits EXCEPT ![i].pc = "done", ![i].resp = 500]
  /\ UNCHANGED <<payments, bookings, gateway, webhookSecret, calls, vendors, chapaSubaccounts>>

\* catch: await prisma.payment.update({ data: { status: "FAILED" } }); then 500
InitiateMarkFailed(i) ==
  /\ inits[i].pc = "markFailed"
  /\ payments' = [payments EXCEPT ![inits[i].paymentId].status = "FAILED",
                                  ![inits[i].paymentId].updatedAt = @ + 1]
  /\ inits' = [inits EXCEPT
       ![i].log = InitLogged(i, "payment.update", inits[i].paymentId, "FAILED"),
       ![i].pc = "done", ![i].resp = 500]
  /\ UNCHANGED <<bookings, gateway, webhookSecret, calls, vendors, chapaSubaccounts>>

(***************************************************************************)
(* testEmailConfiguration                                                  *)
(***************************************************************************)
\* return { success, stage, ... }
MailTestReturns(m, call, stage) ==
  mailTests' = [mailTests EXCEPT ![m] =
    [call EXCEPT !.pc = "done",
                 !.result = [success |-> stage = "completed", stage |-> stage]]]

\* requiredVars.filter(varName => !process.env[varName])
MissingVars == {v \in {"EMAIL_USER", "EMAIL_PASSWORD"} : env[v] = ""}

\* the check of the result of verify() left out
VerifyFailed_ThrowOnly(verifyResult) == verifyResult = "threw"

\* if (!verifyResult), or verify() throwing
VerifyFailed(verifyResult) == verifyResult \in {"false", "threw"}

\* the call, up to its first await: the recipient is validated, the
\* environment checked and the transporter created (a throw of
\* createTransporter reaches the outer catch)
TestEmailConfiguration(m, testEmail) ==
  /\ mailTests[m].pc = "idle"
  /\ \A n \in MailTests : n < m => mailTests[n].pc # "idle"
  /\ LET call == [IdleMailTest EXCEPT !.testEmail = testEmail] IN
       IF testEmail = ""
         THEN MailTestReturns(m, [call EXCEPT !.stages = <<"validation">>], "validation")
       ELSE IF MissingVars # {}
         THEN MailTestReturns(m, [call EXCEPT !.stages = <<"validation", "configuration">>],
                              "configuration")
       ELSE \E created \in BOOLEAN :
              IF created
                THEN mailTests' = [mailTests EXCEPT ![m] =
                       [call EXCEPT !.stages = <<"validation", "configuration", "transporter">>,
                                    !.created = "created", !.pc = "verify"]]
                ELSE MailTestReturns(m,
                       [call EXCEPT !.stages = <<"validation", "configuration", "transporter">>,
                                    !.created = "threw"],
                       "error")
  /\ UNCHANGED <<paymentVars, env>>

\* await emailTransporter.verify()
TestVerifyConnection(m) ==
  /\ mailTests[m].pc = "verify"
  /\ \E verifyResult \in {"true", "false", "threw"} :
       LET call == [mailTests[m] EXCEPT !.stages = Append(@, "connection"),
                                        !.verified = verifyResult]
       IN  IF VerifyFailed(verifyResult)
             THEN MailTestReturns(m, call, "connection")
             ELSE mailTests' = [mailTests EXCEPT ![m] = [call EXCEPT !.pc = "send"]]
  /\ UNCHANGED <<paymentVars, env>>

\* await emailTransporter.sendMail(testMailOptions)
TestSendMail(m) ==
  /\ mailTests[m].pc = "send"
  /\ \E sent \in {"sent", "threw"} :
       LET call == [mailTests[m] EXCEPT !.stages = Append(@, "sending"), !.sent = sent]
       IN  MailTestReturns(m, call, IF sent = "sent" THEN "completed" ELSE "sending")
  /\ UNCHANGED <<paymentVars, env>>

(***************************************************************************)
(* The world around the handlers                                           *)
(***************************************************************************)
\* the gateway settles a pending transaction; a settled one never changes
GatewaySettles(t, outcome) ==
  /\ gateway[t] = "pending"
  /\ outcome # "pending"
  /\ gateway' = [gateway EXCEPT ![t] = outcome]
  /\ UNCHANGED <<payments, bookings, webhookSecret, calls>>

\* a vendor cancels or completes a booking
VendorAction(b, status) ==
  /\ bookings[b].status \in {"PENDING", "CONFIRMED"}
  /\ status \in {"CANCELLED", "COMPLETED"}
  /\ bookings' = [bookings EXCEPT ![b].status = status]
  /\ UNCHANGED <<payments, gateway, webhookSecret, calls>>

\* an operator refunds a completed payment by hand
ManualRefund(p) ==
  /\ payments[p].status = "COMPLETED"
  /\ payments' = [payments EXCEPT ![p].status = "REFUNDED"]
  /\ UNCHANGED <<bookings, gateway, webhookSecret, calls>>

(***************************************************************************)
(* Specifications                                                          *)
(***************************************************************************)
Arrival ==
  \E c \in Calls :
    \/ \E u \in Users, p \in RequestPayIds, t \in RequestTxRefs : VerifyPayment(c, u, p, t)
    \/ \E req \in WebhookRequests : HandleWebhook(c, req)

HandlerStep ==
  \E c \in Calls :
    \/ VerifyFindPayment(c)
    \/ VerifyGatewayAnswers(c)
    \/ VerifyGatewayThrows(c)
    \/ VerifyUpdatePayment(c)
    \/ VerifyUpdateBooking(c)
    \/ VerifyRefetch(c)
    \/ VerifySendCompletion(c)
    \/ VerifySendNewBooking(c)
    \/ WebhookFindPayment(c)
    \/ WebhookUpdatePayment(c)
    \/ WebhookUpdateBooking(c)
    \/ WebhookSendCompletion(c)
    \/ WebhookSendNewBooking(c)

World ==
  \/ \E t \in TxRefs, o \in GatewayOutcomes : GatewaySettles(t, o)
  \/ \E b \in BookingIds, s \in BookingStatuses : VendorAction(b, s)
  \/ \E p \in PayIds : ManualRefund(p)

\* handlers interleave freely
Next == /\ Arrival \/ HandlerStep \/ World
        /\ UNCHANGED initiationVars
        /\ UNCHANGED emailVars
        /\ UNCHANGED <<serviceVars, chatVars>>

Spec == Init /\ [][Next]_vars

\* no request is being handled
Quiet == \A c \in Calls : ~InFlight(c)

\* one request at a time: a request arrives, and the world moves, only
\* while no other request is being handled
NextSeq == /\ (Quiet /\ Arrival) \/ HandlerStep \/ (Quiet /\ World)
           /\ UNCHANGED initiationVars
           /\ UNCHANGED emailVars
           /\ UNCHANGED <<serviceVars, chatVars>>

SeqSpec == Init /\ [][NextSeq]_vars


(***************************************************************************)
(* The life of a payment: initiatePayment creates the rows that            *)
(* verifyPayment and handleWebhook then reconcile.  The database starts    *)
(* without payments; the payout accounts may be configured or not.         *)
(***************************************************************************)
MaxPayCalls == 1

PayInit ==
  /\ payments = <<>>
  /\ bookings = [b \in BookingIds |-> [status |-> "PENDING"]]
  /\ gateway = [t \in {} |-> "pending"]
  /\ webhookSecret = GatewaySecret
  /\ calls = [c \in Calls |-> IdleCall]
  /\ vendors \in { ConfiguredVendors,
                   [ConfiguredVendors EXCEPT !["v1"].chapaSubaccountId = ""] }
  /\ chapaSubaccounts \in { {AdminAccount}, {} }
  /\ inits = [i \in Inits |-> IdleInit]
  /\ env = ConfiguredEnv
  /\ mailTests = [m \in MailTests |-> IdleMailTest]
  /\ ServicesIdle /\ ChatIdle

InitiateArrival ==
  \E i \in Inits, u \in InitUsers, a \in Amounts, v \in VendorIds, b \in RequestBookingIds :
    InitiatePayment(i, u, a, v, b)

InitiateStep ==
  \E i \in Inits :
    \/ InitiateFindClient(i)
    \/ InitiateFindBooking(i)
    \/ InitiateFindVendor(i)
    \/ InitiateFindAdmin(i)
    \/ InitiateCreatePayment(i)
    \/ InitiateCheckoutAnswers(i)
    \/ InitiateCheckoutThrows(i)
    \/ InitiateSaveTxRef(i)
    \/ InitiateMarkFailed(i)

\* polls and webhooks for the payments and transactions there are
PayArrival ==
  \E c \in 1..MaxPayCalls :
    \/ \E u \in Users, p \in DOMAIN payments, t \in DOMAIN gateway : VerifyPayment(c, u, p, t)
    \/ \E b \in GenuineBodies :
         HandleWebhook(c, [body |-> b, signature |-> Hmac(GatewaySecret, b)])

PayWorld == \E t \in DOMAIN gateway, o \in GatewayOutcomes : GatewaySettles(t, o)

PayNext ==
  /\ \/ InitiateArrival
     \/ InitiateStep
     \/ (PayArrival \/ HandlerStep \/ PayWorld) /\ UNCHANGED initiationVars
  /\ UNCHANGED emailVars
  /\ UNCHANGED <<serviceVars, chatVars>>

PaySpec == PayInit /\ [][PayNext]_vars


(***************************************************************************)
(* The email configuration test, run against any environment               *)
(***************************************************************************)
EmailInit ==
  /\ payments = [p \in PayIds |->
                   [userId |-> "u1", transactionId |-> "tx1", status |-> "PENDING",
                    bookingId |-> 1, updatedAt |-> 0]]
  /\ bookings = [b \in BookingIds |-> [status |-> "PENDING"]]
  /\ gateway = [t \in TxRefs |-> "pending"]
  /\ webhookSecret = GatewaySecret
  /\ calls = [c \in Calls |-> IdleCall]
  /\ vendors = ConfiguredVendors
  /\ chapaSubaccounts = {AdminAccount}
  /\ inits = [i \in Inits |-> IdleInit]
  /\ env \in [EMAIL_USER : {"", ConfiguredEnv.EMAIL_USER},
              EMAIL_PASSWORD : {"", ConfiguredEnv.EMAIL_PASSWORD}]
  /\ mailTests = [m \in MailTests |-> IdleMailTest]
  /\ ServicesIdle /\ ChatIdle

EmailNext ==
  /\ \E m \in MailTests :
       \/ \E testEmail \in TestEmails : TestEmailConfiguration(m, testEmail)
       \/ TestVerifyConnection(m)
       \/ TestSendMail(m)
  /\ UNCHANGED <<serviceVars, chatVars>>

EmailSpec == EmailInit /\ [][EmailNext]_vars


(***************************************************************************)
(* The service listings: getServiceById of the client API, deleteService   *)
(* and updateService of the vendor API.  The description, the features and *)
(* the package type of a service are left out; they are copied like the    *)
(* name.                                                                   *)
(***************************************************************************)
SvcArrived(c) == svcCalls[c].pc # "idle"

SvcNextToArrive(c) == /\ ~SvcArrived(c)
                      /\ \A d \in SvcCalls : d < c => SvcArrived(d)

SvcLogged(c, op, id, arg) == Append(svcCalls[c].log, Effect(op, id, arg))

SvcRespond(c, call, status) ==
  svcCalls' = [svcCalls EXCEPT ![c] = [call EXCEPT !.pc = "done", !.resp = status]]

\* obj[key] of a JavaScript object
Property(obj, key) == IF key \in DOMAIN obj THEN obj[key] ELSE Undefined

\* a Service row as the query returns it
ServiceObject(id, row) ==
  [id |-> id, vendorId |-> row.vendorId, name |-> row.name, price |-> row.price,
   categoryId |-> row.categoryId, image |-> row.image]

\* prisma.service.findUnique({ where: { id } }); NoService is null
FindUniqueService(id) ==
  IF id \in DOMAIN services THEN ServiceObject(id, services[id]) ELSE NoService

\* vendor: { select: { id, businessName, rating, userId, description, user } }:
\* the fields of the vendor that the query returns
SelectedVendor(v) == [id |-> v, userId |-> vendors[v].userId]

\* the vendor with every column, as a query without select returns it
SelectedVendor_AllColumns(v) ==
  [id |-> v, userId |-> vendors[v].userId, status |-> vendors[v].status]

\* if (service.vendor.status !== "APPROVED")
VendorNotApproved(vendor) == Property(vendor, "status") # "APPROVED"

\* GET /:id arrives
GetServiceById(c, id) ==
  /\ SvcNextToArrive(c)
  /\ svcCalls' = [svcCalls EXCEPT ![c] =
       [IdleSvcCall EXCEPT !.op = "get", !.serviceId = id, !.pc = "findService"]]
  /\ UNCHANGED <<services, files>>

\* await prisma.service.findUnique({ include: { vendor, category } }); the
\* three answers
GetFindService(c) ==
  /\ svcCalls[c].op = "get" /\ svcCalls[c].pc = "findService"
  /\ LET service == FindUniqueService(svcCalls[c].serviceId)
         call == [svcCalls[c] EXCEPT !.service = service]
     IN  IF service = NoService
           THEN SvcRespond(c, call, 404)
         ELSE IF VendorNotApproved(SelectedVendor(service.vendorId))
           THEN SvcRespond(c, call, 403)
         ELSE SvcRespond(c, [call EXCEPT !.body = service], 200)
  /\ UNCHANGED <<services, files>>

\* prisma.vendor.findUnique({ where: { userId } }).id, "" for null
FindVendorOfUser(userId) ==
  IF \E v \in DOMAIN vendors : vendors[v].userId = userId
    THEN CHOOSE v \in DOMAIN vendors : vendors[v].userId = userId
    ELSE ""

\* no ownership test
NotOwnService_Unchecked(service, vendorId) == FALSE

\* if (service.vendorId !== vendorId)
NotOwnService(service, vendorId) == service.vendorId # vendorId

\* await prisma.vendor.findUnique(...) of either handler
FindVendorStep(c, op) ==
  /\ svcCalls[c].op = op /\ svcCalls[c].pc = "findVendor"
  /\ LET vendorId == FindVendorOfUser(svcCalls[c].userId)
         call == [svcCalls[c] EXCEPT !.vendorId = vendorId]
     IN  IF vendorId = ""
           THEN SvcRespond(c, call, 404)
           ELSE svcCalls' = [svcCalls EXCEPT ![c] = [call EXCEPT !.pc = "findService"]]
  /\ UNCHANGED <<services, files>>

(***************************************************************************)
(* deleteService                                                           *)
(***************************************************************************)
\* DELETE /:serviceId arrives
DeleteService(c, userId, serviceId) ==
  /\ SvcNextToArrive(c)
  /\ svcCalls' = [svcCalls EXCEPT ![c] =
       [IdleSvcCall EXCEPT !.op = "delete", !.userId = userId,
                           !.serviceId = serviceId, !.pc = "findVendor"]]
  /\ UNCHANGED <<services, files>>

DeleteFindVendor(c) == FindVendorStep(c, "delete")

\* await prisma.service.findUnique(...); the existence and ownership checks
DeleteFindService(c) ==
  /\ svcCalls[c].op = "delete" /\ svcCalls[c].pc = "findService"
  /\ LET service == FindUniqueService(svcCalls[c].serviceId)
         call == [svcCalls[c] EXCEPT !.service = service]
     IN  IF service = NoService
           THEN SvcRespond(c, call, 404)
         ELSE IF NotOwnService(service, svcCalls[c].vendorId)
           THEN SvcRespond(c, call, 403)
         ELSE svcCalls' = [svcCalls EXCEPT ![c] = [call EXCEPT !.pc = "delete"]]
  /\ UNCHANGED <<services, files>>

\* await prisma.service.delete(...); it throws when the row is gone or a
\* booking still references it (Booking_serviceId_fkey is ON DELETE
\* RESTRICT), and the error handler answers 500
DeleteRow(c) ==
  /\ svcCalls[c].op = "delete" /\ svcCalls[c].pc = "delete"
  /\ LET id == svcCalls[c].serviceId
     IN  \/ /\ id \in DOMAIN services
            /\ services' = [s \in DOMAIN services \ {id} |-> services[s]]
            /\ SvcRespond(c, [svcCalls[c] EXCEPT !.log = SvcLogged(c, "service.delete", id, "deleted")], 200)
         \/ /\ UNCHANGED services
            /\ SvcRespond(c, [svcCalls[c] EXCEPT !.log = SvcLogged(c, "service.delete", id, "threw")], 500)
  /\ UNCHANGED files

(***************************************************************************)
(* updateService                                                           *)
(***************************************************************************)
\* `/uploads/services/${uuidv4()}${fileExtension}`: one fresh name per upload
UploadedImage == <<"/uploads/services/new1.png", "/uploads/services/new2.png",
                   "/uploads/services/new3.png", "/uploads/services/new4.png">>

\* if (price && (typeof price !== "number" || price <= 0)), price a number
PriceInvalid(price) == price # 0 /\ price <= 0

\* PATCH /:serviceId arrives
UpdateService(c, userId, serviceId, title, price, categoryId, file) ==
  /\ SvcNextToArrive(c)
  /\ svcCalls' = [svcCalls EXCEPT ![c] =
       [IdleSvcCall EXCEPT !.op = "update", !.userId = userId, !.serviceId = serviceId,
                           !.title = title, !.price = price, !.categoryId = categoryId,
                           !.file = file, !.pc = "findVendor"]]
  /\ UNCHANGED <<services, files>>

UpdateFindVendor(c) == FindVendorStep(c, "update")

\* if (req.file): the old image is unlinked where it exists, the new one
\* is written by saveImage
FilesAfterUpload(c, service) ==
  IF svcCalls[c].file THEN (files \ {service.image}) \cup {UploadedImage[c]}
                      ELSE files

\* the effects of the upload on the file system
UploadEffects(c, service) ==
  IF ~svcCalls[c].file THEN <<>>
  ELSE (IF service.image \in files
          THEN <<Effect("fs.unlinkSync", service.id, service.image)>> ELSE <<>>)
       \o <<Effect("fs.writeFileSync", service.id, UploadedImage[c])>>

\* await prisma.service.findUnique(...); the existence and ownership
\* checks, the price validation; without a categoryId the upload follows
UpdateFindService(c) ==
  /\ svcCalls[c].op = "update" /\ svcCalls[c].pc = "findService"
  /\ LET service == FindUniqueService(svcCalls[c].serviceId)
         call == [svcCalls[c] EXCEPT !.service = service]
     IN  IF service = NoService
           THEN SvcRespond(c, call, 404) /\ UNCHANGED files
         ELSE IF NotOwnService(service, svcCalls[c].vendorId)
           THEN SvcRespond(c, call, 403) /\ UNCHANGED files
         ELSE IF PriceInvalid(svcCalls[c].price)
           THEN SvcRespond(c, call, 400) /\ UNCHANGED files
         ELSE IF svcCalls[c].categoryId # ""
           THEN /\ svcCalls' = [svcCalls EXCEPT ![c] = [call EXCEPT !.pc = "findCategory"]]
                /\ UNCHANGED files
         ELSE /\ files' = FilesAfterUpload(c, service)
              /\ svcCalls' = [svcCalls EXCEPT ![c] =
                   [call EXCEPT !.log = svcCalls[c].log \o UploadEffects(c, service),
                                !.pc = "update"]]
  /\ UNCHANGED services

\* await prisma.serviceCategory.findUnique(...); then the upload
UpdateFindCategory(c) ==
  /\ svcCalls[c].op = "update" /\ svcCalls[c].pc = "findCategory"
  /\ IF svcCalls[c].categoryId \notin CategoryIds
       THEN SvcRespond(c, svcCalls[c], 404) /\ UNCHANGED files
       ELSE /\ files' = FilesAfterUpload(c, svcCalls[c].service)
            /\ svcCalls' = [svcCalls EXCEPT
                 ![c].log = svcCalls[c].log \o UploadEffects(c, svcCalls[c].service),
                 ![c].pc = "update"]
  /\ UNCHANGED services

\* the row with updateData applied
UpdatedRow(row, call, image) ==
  [row EXCEPT !.name = IF call.title # "" THEN call.title ELSE @,
              !.price = IF call.price # 0 THEN call.price ELSE @,
              !.categoryId = IF call.categoryId # "" THEN call.categoryId ELSE @,
              !.image = IF call.file THEN image ELSE @]

\* await prisma.service.update(...); it throws when the row is gone, and
\* the error handler answers 500
UpdateRow(c) ==
  /\ svcCalls[c].op = "update" /\ svcCalls[c].pc = "update"
  /\ LET id == svcCalls[c].serviceId
     IN  IF id \in DOMAIN services
           THEN LET updatedService == UpdatedRow(services[id], svcCalls[c], UploadedImage[c])
                IN  /\ services' = [services EXCEPT ![id] = updatedService]
                    /\ SvcRespond(c, [svcCalls[c] EXCEPT
                           !.log = SvcLogged(c, "service.update", id, "updated"),
                           !.body = ServiceObject(id, updatedService)], 200)
           ELSE /\ UNCHANGED services
                /\ SvcRespond(c, [svcCalls[c] EXCEPT !.log = SvcLogged(c, "service.update", id, "threw")], 500)
  /\ UNCHANGED files

\* everything of the payment flow at rest
PaymentsIdle ==
  /\ payments = [p \in PayIds |->
                   [userId |-> "u1", transactionId |-> "tx1", status |-> "PENDING",
                    bookingId |-> 1, updatedAt |-> 0]]
  /\ bookings = [b \in BookingIds |-> [status |-> "PENDING"]]
  /\ gateway = [t \in TxRefs |-> "pending"]
  /\ webhookSecret = GatewaySecret
  /\ calls = [c \in Calls |-> IdleCall]
  /\ chapaSubaccounts = {AdminAccount}
  /\ inits = [i \in Inits |-> IdleInit]
  /\ env = ConfiguredEnv
  /\ mailTests = [m \in MailTests |-> IdleMailTest]

\* the first vendor in any status
ServiceInit ==
  /\ PaymentsIdle
  /\ \E s \in VendorStatuses : vendors = [ConfiguredVendors EXCEPT !["v1"].status = s]
  /\ ServicesIdle /\ ChatIdle

ServiceArrival ==
  \E c \in SvcCalls :
    \/ \E id \in RequestServiceIds : GetServiceById(c, id)
    \/ \E u \in SvcUsers, id \in RequestServiceIds : DeleteService(c, u, id)
    \/ \E u \in SvcUsers, id \in RequestServiceIds, b \in UpdateBodies :
         UpdateService(c, u, id, b.title, b.price, b.categoryId, b.file)

ServiceStep ==
  \E c \in SvcCalls :
    \/ GetFindService(c)
    \/ DeleteFindVendor(c)
    \/ DeleteFindService(c)
    \/ DeleteRow(c)
    \/ UpdateFindVendor(c)
    \/ UpdateFindService(c)
    \/ UpdateFindCategory(c)
    \/ UpdateRow(c)

ServiceNext ==
  /\ ServiceArrival \/ ServiceStep
  /\ UNCHANGED <<paymentVars, emailVars, chatVars>>

ServiceSpec == ServiceInit /\ [][ServiceNext]_vars


(***************************************************************************)
(* The chat server: the connection and disconnect handlers of Socket.IO.   *)
(* The connection handler issues prisma.user.update({ isOnline: true })    *)
(* without awaiting it: the query runs at some later time, or not at all   *)
(* (a Prisma query is sent when its promise is awaited or chained).        *)
(***************************************************************************)
SocketNextToConnect(s) ==
  /\ sockets[s].state = "none"
  /\ \A r \in Sockets : r < s => sockets[r].state # "none"

\* io.on("connection"): the socket of an authenticated user connects
Connection(s, user) ==
  /\ SocketNextToConnect(s)
  /\ \E issued \in BOOLEAN :
       sockets' = [sockets EXCEPT ![s] =
         [user |-> user, state |-> "connected",
          markOnline |-> IF issued THEN "pending" ELSE "unsent"]]
  /\ UNCHANGED isOnline

\* the update of the connection handler reaches the database
MarkOnlineRuns(s) ==
  /\ sockets[s].markOnline = "pending"
  /\ isOnline' = [isOnline EXCEPT ![sockets[s].user] = TRUE]
  /\ sockets' = [sockets EXCEPT ![s].markOnline = "done"]

\* socket.on("disconnect"): the socket closes and its handler starts
Disconnect(s) ==
  /\ sockets[s].state = "connected"
  /\ sockets' = [sockets EXCEPT ![s].state = "disconnecting"]
  /\ UNCHANGED isOnline

\* await prisma.user.update({ data: { isOnline: false } })
DisconnectMarkOffline(s) ==
  /\ sockets[s].state = "disconnecting"
  /\ isOnline' = [isOnline EXCEPT ![sockets[s].user] = FALSE]
  /\ sockets' = [sockets EXCEPT ![s].state = "closed"]

ChatInit ==
  /\ PaymentsIdle
  /\ vendors = ConfiguredVendors
  /\ ServicesIdle /\ ChatIdle

ChatNext ==
  /\ \E s \in Sockets :
       \/ \E u \in Users : Connection(s, u)
       \/ MarkOnlineRuns(s)
       \/ Disconnect(s)
       \/ DisconnectMarkOffline(s)
  /\ UNCHANGED <<paymentVars, emailVars, serviceVars>>

ChatSpec == ChatInit /\ [][ChatNext]_vars


(***************************************************************************)
(* Vocabulary of the properties                                            *)
(***************************************************************************)
Finished(c) == calls[c].pc = "done"

\* step by which request c gets its response
Finishes(c) == calls[c].pc # "done" /\ calls'[c].pc = "done"

\* a handler of the reconciliation engine took this step
EngineStep == calls' # calls

Wrote(c, op, arg) == \E i \in DOMAIN calls[c].log :
                       calls[c].log[i].op = op /\ calls[c].log[i].arg = arg

Notifiers == {"sendPaymentCompletionToVendor", "sendNewBookingToVendor"}

IsNotifierCall(e) == e.op \in Notifiers

\* the notifier calls request c made, in order
NotifierCalls(log) == SelectSeq(log, IsNotifierCall)

\* step in which request c issues the booking update
ConfirmsBooking(c, b) ==
  /\ Len(calls'[c].log) = Len(calls[c].log) + 1
  /\ calls'[c].log[Len(calls'[c].log)] = Effect("booking.update", b, "CONFIRMED")

(***************************************************************************)
(* C1.  Once every poll and webhook call for a payment has finished, and   *)
(* one of them has reported the settled outcome of the gateway, the        *)
(* payment holds the status of that outcome and its booking is CONFIRMED   *)
(* exactly when the payment is COMPLETED, whatever the order and the       *)
(* interleaving of the calls.  (Bookings the vendor has closed and         *)
(* payments refunded by hand are left aside.)                              *)
(***************************************************************************)
SettledStatus(outcome) == IF outcome = "success" THEN "COMPLETED" ELSE "FAILED"

C1_ConsistentTerminalState ==
  \A p \in PayIds :
    ( /\ \A c \in Calls : ~InFlight(c)
      /\ \E c \in Calls : Wrote(c, "payment.update", "COMPLETED")
                          \/ Wrote(c, "payment.update", "FAILED")
      /\ payments[p].status # "REFUNDED"
      /\ bookings[payments[p].bookingId].status \in {"PENDING", "CONFIRMED"} )
    => /\ payments[p].status = SettledStatus(gateway[payments[p].transactionId])
       /\ (bookings[payments[p].bookingId].status = "CONFIRMED"
             <=> payments[p].status = "COMPLETED")

(***************************************************************************)
(* C2.  Every change a poll or webhook step makes to a payment's status is *)
(* PENDING -> COMPLETED or PENDING -> FAILED: a COMPLETED, FAILED or       *)
(* REFUNDED payment keeps its status.                                      *)
(***************************************************************************)
C2_StatusMonotone ==
  [][ \A p \in PayIds :
        (EngineStep /\ payments'[p].status # payments[p].status)
          => /\ payments[p].status = "PENDING"
             /\ payments'[p].status \in {"COMPLETED", "FAILED"} ]_vars

(***************************************************************************)
(* C3.  A poll or webhook step writes CONFIRMED to a booking only if the   *)
(* booking's stored status is PENDING when the write happens.              *)
(***************************************************************************)
C3_ConfirmOnlyPending ==
  [][ \A c \in Calls, b \in BookingIds :
        ConfirmsBooking(c, b) => bookings[b].status = "PENDING" ]_vars

(***************************************************************************)
(* C4.  A request that wrote CONFIRMED to a booking has, earlier in the    *)
(* same request, written COMPLETED to the payment of that booking.         *)
(***************************************************************************)
C4_ConfirmFollowsCompleted ==
  \A c \in Calls : \A i \in DOMAIN calls[c].log :
    calls[c].log[i].op = "booking.update"
      => \E j \in 1..(i - 1) :
           /\ calls[c].log[j].op = "payment.update"
           /\ calls[c].log[j].arg = "COMPLETED"
           /\ calls[c].log[j].id \in DOMAIN payments
           /\ payments[calls[c].log[j].id].bookingId = calls[c].log[i].id

\* a poll and a webhook have each confirmed the booking
C4_Witness ==
  \E c, d \in Calls :
    /\ calls[c].kind = "poll" /\ calls[d].kind = "webhook"
    /\ Wrote(c, "booking.update", "CONFIRMED")
    /\ Wrote(d, "booking.update", "CONFIRMED")


(***************************************************************************)
(* C5.  A poll or webhook call that reports COMPLETED and finds the        *)
(* booking of the payment already CONFIRMED issues no booking update, and  *)
(* answers 200.                                                            *)
(***************************************************************************)
\* the booking as the handler read it for its PENDING check
BookingSeen(c) ==
  IF calls[c].kind = "poll" THEN calls[c].payment.booking
                            ELSE calls[c].updatedPayment.booking

C5_NoReconfirmation ==
  \A c \in Calls :
    (calls[c].paymentStatus = "COMPLETED" /\ BookingSeen(c).status = "CONFIRMED")
      => /\ ~Wrote(c, "booking.update", "CONFIRMED")
         /\ Finished(c) => calls[c].resp = 200

\* after another request confirmed the booking, a poll reported COMPLETED
C5_Witness ==
  \E c, d \in Calls :
    /\ Wrote(d, "booking.update", "CONFIRMED")
    /\ calls[c].kind = "poll" /\ Finished(c)
    /\ calls[c].paymentStatus = "COMPLETED"
    /\ BookingSeen(c).status = "CONFIRMED"
    /\ calls[c].resp = 200

(***************************************************************************)
(* C6.  A poll that names an existing payment and a transaction reference, *)
(* made by a user who does not own the payment, gets 403 and does nothing: *)
(* it reaches neither the gateway nor a write nor the notifier, and the    *)
(* step that rejects it leaves every row as it was.                        *)
(***************************************************************************)
PollByStranger(c) ==
  /\ calls[c].kind = "poll"
  /\ calls[c].tx_ref # ""
  /\ calls[c].paymentId \in DOMAIN payments
  /\ payments[calls[c].paymentId].userId # calls[c].userId

C6_StrangerRejected ==
  /\ [] \A c \in Calls :
          PollByStranger(c) => /\ calls[c].pc \in {"find", "done"}
                               /\ calls[c].log = <<>>
                               /\ Finished(c) => calls[c].resp = 403
  /\ [][ \A c \in Calls :
           (Finishes(c) /\ calls'[c].resp = 403)
             => UNCHANGED <<payments, bookings>> ]_vars

C6_Witness ==
  \E c \in Calls : PollByStranger(c) /\ Finished(c) /\ calls[c].resp = 403

(***************************************************************************)
(* C7.  A webhook whose chapa-signature header is missing, or is not the   *)
(* HMAC of its body under the configured secret, gets 401 on arrival: it   *)
(* looks up no payment, writes no row and sends no email.                  *)
(***************************************************************************)
BadSignature(c) ==
  /\ calls[c].kind = "webhook"
  /\ \/ calls[c].signature = NoSignature
     \/ calls[c].signature.key # webhookSecret
     \/ calls[c].signature.tx_ref # calls[c].tx_ref
     \/ calls[c].signature.status # calls[c].status

C7_BadSignatureRejected ==
  \A c \in Calls :
    BadSignature(c) => /\ Finished(c)
                       /\ calls[c].resp = 401
                       /\ calls[c].payment = NoPayment
                       /\ calls[c].log = <<>>

\* an unsigned, a wrongly keyed and an altered webhook were each rejected
\* by a server that has its secret
C7_Witness ==
  /\ webhookSecret = GatewaySecret
  /\ \E c, d \in Calls :
       /\ calls[c].kind = "webhook" /\ calls[d].kind = "webhook"
       /\ calls[c].resp = 401 /\ calls[d].resp = 401
       /\ calls[c].signature.key = GatewaySecret
       /\ calls[c].signature.status # calls[c].status
       /\ calls[d].signature = NoSignature

(***************************************************************************)
(* C8.  The status a handler maps a gateway status string to is COMPLETED  *)
(* for success, FAILED for failed and for fail, PENDING for pending, each  *)
(* compared without regard to case, and FAILED for every other string;     *)
(* never REFUNDED.                                                         *)
(***************************************************************************)
SameLetter(a, b) ==
  \/ a = b
  \/ \E i \in DOMAIN UpperCase : {a, b} = {UpperCase[i], LowerCase[i]}

EqualIgnoringCase(s, w) ==
  /\ Len(s) = Len(w)
  /\ \A i \in DOMAIN s : SameLetter(s[i], w[i])

DefaultDeny(s) ==
  IF EqualIgnoringCase(s, W_success) THEN "COMPLETED"
  ELSE IF EqualIgnoringCase(s, W_pending) THEN "PENDING"
  ELSE "FAILED"

C8_DefaultDenyMapping ==
  \A c \in Calls :
    calls[c].paymentStatus # ""
      => /\ calls[c].paymentStatus = DefaultDeny(calls[c].status)
         /\ calls[c].paymentStatus # "REFUNDED"

\* a poll mapped an upper-case FAIL, a webhook a word the switch does not list
C8_Witness ==
  \E c, d \in Calls :
    /\ calls[c].kind = "poll" /\ calls[d].kind = "webhook"
    /\ calls[c].status = <<"F","A","I","L">>
    /\ calls[c].paymentStatus = "FAILED"
    /\ calls[d].status = W_refunded
    /\ calls[d].paymentStatus = "FAILED"

(***************************************************************************)
(* C9.  Requests handled one at a time.  The owner polls a PENDING payment *)
(* whose booking is PENDING and the gateway answers success: when the poll *)
(* responds, the payment is COMPLETED, the booking is CONFIRMED, the       *)
(* notifier was called exactly twice (sendPaymentCompletionToVendor, then  *)
(* sendNewBookingToVendor) and the response is 200 with status COMPLETED.  *)
(***************************************************************************)
SuccessfulFirstPoll(c) ==
  /\ calls[c].kind = "poll"
  /\ calls[c].payment.id \in DOMAIN payments
  /\ calls[c].payment.userId = calls[c].userId
  /\ calls[c].payment.status = "PENDING"
  /\ calls[c].payment.booking.status = "PENDING"
  /\ EqualIgnoringCase(calls[c].status, W_success)

\* the rows and the response as the claim has them
C9_Outcome(c) ==
  /\ payments'[calls[c].payment.id].status = "COMPLETED"
  /\ bookings'[calls[c].payment.booking.id].status = "CONFIRMED"
  /\ calls'[c].resp = 200
  /\ calls'[c].respStatus = "COMPLETED"

NotifierOps(log) == [i \in DOMAIN NotifierCalls(log) |-> NotifierCalls(log)[i].op]

C9_TwoNotifierCalls ==
  [][ \A c \in Calls :
        (Finishes(c) /\ SuccessfulFirstPoll(c))
          => /\ C9_Outcome(c)
             /\ NotifierOps(calls'[c].log) =
                  <<"sendPaymentCompletionToVendor", "sendNewBookingToVendor">> ]_vars

\* C9 as amended: the second notifier call is made unless the first threw
C9_NotifierCallsUnlessThrown ==
  [][ \A c \in Calls :
        (Finishes(c) /\ SuccessfulFirstPoll(c))
          => /\ C9_Outcome(c)
             /\ LET n == NotifierCalls(calls'[c].log) IN
                \/ /\ NotifierOps(calls'[c].log) =
                        <<"sendPaymentCompletionToVendor", "sendNewBookingToVendor">>
                   /\ n[1].arg = "sent"
                \/ /\ NotifierOps(calls'[c].log) = <<"sendPaymentCompletionToVendor">>
                   /\ n[1].arg = "threw" ]_vars

\* such a poll has responded after both emails were sent
C9_Witness ==
  \E c \in Calls :
    /\ Finished(c) /\ SuccessfulFirstPoll(c)
    /\ calls[c].resp = 200
    /\ Len(NotifierCalls(calls[c].log)) = 2
    /\ \A i \in 1..2 : NotifierCalls(calls[c].log)[i].arg = "sent"

(***************************************************************************)
(* C10.  A poll or webhook call whose mapped status is FAILED or PENDING   *)
(* writes the payment row and nothing else: its one write sets the payment *)
(* to the mapped status and leaves every booking as it was, it calls no    *)
(* notifier, and it answers 200.  So a signed webhook reporting failed for *)
(* a PENDING payment sets it FAILED and leaves the booking PENDING.        *)
(***************************************************************************)
NotCompleted(c) == calls[c].paymentStatus \in {"FAILED", "PENDING"}

C10_OnlyPaymentRow ==
  /\ [] \A c \in Calls :
          NotCompleted(c)
            => /\ \A i \in DOMAIN calls[c].log :
                    calls[c].log[i] = Effect("payment.update", calls[c].payment.id,
                                             calls[c].paymentStatus)
               /\ Len(calls[c].log) <= 1
               /\ Finished(c) => (calls[c].resp = 200 /\ Len(calls[c].log) = 1)
  /\ [][ \A c \in Calls :
           (NotCompleted(c) /\ calls'[c] # calls[c])
             => /\ bookings' = bookings
                /\ \A p \in PayIds :
                     payments'[p] # payments[p]
                       => /\ p = calls[c].payment.id
                          /\ payments'[p].status = calls[c].paymentStatus
                          /\ payments'[p] = [payments[p] EXCEPT
                                               !.status = calls[c].paymentStatus,
                                               !.updatedAt = payments'[p].updatedAt] ]_vars

\* a signed webhook reporting failed has set a PENDING payment to FAILED
C10_Witness ==
  \E c \in Calls :
    /\ calls[c].kind = "webhook" /\ Finished(c)
    /\ calls[c].status = W_failed
    /\ calls[c].payment.status = "PENDING"
    /\ calls[c].log = <<Effect("payment.update", calls[c].payment.id, "FAILED")>>
    /\ payments[calls[c].payment.id].status = "FAILED"
    /\ bookings[calls[c].payment.booking.id].status = "PENDING"

(***************************************************************************)
(* C11.  Requests handled one at a time.  A poll finds the payment and its *)
(* booking PENDING and gets success from the gateway; a webhook reporting  *)
(* success for the same payment is handled after it, the vendor not having *)
(* closed the booking.  When the webhook responds, the payment is          *)
(* COMPLETED and the booking CONFIRMED; the booking update was issued once,*)
(* by the poll; the poll, which made the transition, called the notifier   *)
(* (the completion email first, each email at most once) and the webhook,  *)
(* which found the booking CONFIRMED, called none.                         *)
(***************************************************************************)
BookingUpdates(log) ==
  Cardinality({i \in DOMAIN log : log[i].op = "booking.update"})

WebhookAfterPoll(c, d) ==
  /\ Finished(c) /\ SuccessfulFirstPoll(c)
  /\ calls[d].kind = "webhook"
  /\ calls[d].paymentStatus = "COMPLETED"
  /\ calls[d].payment.id = calls[c].payment.id
  /\ bookings[calls[c].payment.booking.id].status \notin {"CANCELLED", "COMPLETED"}

C11_PollThenWebhook ==
  [][ \A c, d \in Calls :
        (WebhookAfterPoll(c, d) /\ Finishes(d))
          => /\ payments'[calls[c].payment.id].status = "COMPLETED"
             /\ bookings'[calls[c].payment.booking.id].status = "CONFIRMED"
             /\ BookingUpdates(calls[c].log) = 1
             /\ BookingUpdates(calls'[d].log) = 0
             /\ NotifierOps(calls[c].log) \in
                  { <<"sendPaymentCompletionToVendor", "sendNewBookingToVendor">>,
                    <<"sendPaymentCompletionToVendor">> }
             /\ NotifierCalls(calls'[d].log) = <<>>
             /\ calls'[d].resp = 200 ]_vars

\* the poll has confirmed and notified, the webhook after it has responded
C11_Witness ==
  \E c, d \in Calls :
    /\ WebhookAfterPoll(c, d) /\ Finished(d)
    /\ Len(NotifierCalls(calls[c].log)) = 2
    /\ calls[d].log = <<Effect("payment.update", calls[d].payment.id, "COMPLETED")>>
    /\ bookings[calls[c].payment.booking.id].status = "CONFIRMED"

(***************************************************************************)
(* C12.  Requests handled one at a time, no email throwing.  verifyPayment *)
(* and handleWebhook are the same function of the payment status and the   *)
(* booking status they find and of the gateway status: the payment gets    *)
(* the mapped status, a PENDING booking becomes CONFIRMED when that status *)
(* is COMPLETED, and the notifier is called twice on the transition to     *)
(* COMPLETED and not at all otherwise: twice by a call that makes the      *)
(* payment COMPLETED and the booking CONFIRMED, never by a call that maps  *)
(* to another status or finds the payment COMPLETED and the booking no     *)
(* longer PENDING.  (A call that changes one of the two statuses only may  *)
(* count as a transition or not.)                                          *)
(***************************************************************************)
TransitionFunction(paymentStatus, bookingStatus, mapped) ==
  [ payment  |-> mapped,
    booking  |-> IF mapped = "COMPLETED" /\ bookingStatus = "PENDING"
                   THEN "CONFIRMED" ELSE bookingStatus,
    notifier |-> IF mapped = "COMPLETED" /\ paymentStatus # "COMPLETED"
                                         /\ bookingStatus = "PENDING"
                   THEN {2}
                 ELSE IF mapped # "COMPLETED"
                           \/ (paymentStatus = "COMPLETED" /\ bookingStatus # "PENDING")
                   THEN {0}
                 ELSE {0, 2} ]

NoEmailThrew(log) == \A i \in DOMAIN log : log[i].arg # "threw"

C12_SameTransitionFunction ==
  [][ \A c \in Calls :
        (Finishes(c) /\ calls'[c].resp = 200 /\ NoEmailThrew(calls'[c].log))
          => LET seen == BookingSeen(c)'
                 t == TransitionFunction(calls[c].payment.status, seen.status,
                                         calls[c].paymentStatus)
             IN  /\ payments'[calls[c].payment.id].status = t.payment
                 /\ bookings'[seen.id].status = t.booking
                 /\ Len(NotifierCalls(calls'[c].log)) \in t.notifier ]_vars

(***************************************************************************)
(* C13.  An email that throws changes nothing of the outcome of a poll or  *)
(* webhook call: the steps that send the emails leave every payment and    *)
(* booking row as it is, and a call that reached the emails answers 200    *)
(* (the poll reporting COMPLETED) after the same writes, whether its       *)
(* emails were sent or threw.                                              *)
(***************************************************************************)
IsRowWrite(e) == e.op \in {"payment.update", "booking.update"}

\* the row writes request c made, in order
RowWrites(log) == SelectSeq(log, IsRowWrite)

\* the row writes of a call that maps to COMPLETED, from what it found
CompletedWrites(c) ==
  <<Effect("payment.update", calls[c].payment.id, "COMPLETED")>> \o
  (IF BookingSeen(c).status = "PENDING"
     THEN <<Effect("booking.update", BookingSeen(c).id, "CONFIRMED")>>
     ELSE <<>>)

SendingEmail(c) ==
  calls[c].pc \in {"mail1", "mail2"} /\ calls'[c] # calls[c]

C13_EmailFailureHarmless ==
  /\ [] \A c \in Calls :
          (Finished(c) /\ NotifierCalls(calls[c].log) # <<>>)
            => /\ calls[c].resp = 200
               /\ calls[c].kind = "poll" => calls[c].respStatus = "COMPLETED"
               /\ RowWrites(calls[c].log) = CompletedWrites(c)
  /\ [][ \A c \in Calls :
           SendingEmail(c)
             => /\ payments' = payments /\ bookings' = bookings
                /\ RowWrites(calls'[c].log) = RowWrites(calls[c].log)
                /\ Finishes(c) => calls'[c].resp = 200 ]_vars

\* a poll whose second email threw and a webhook whose first email threw
\* have both answered 200
C13_Witness ==
  \E c, d \in Calls :
    /\ calls[c].kind = "poll" /\ Finished(c) /\ calls[c].resp = 200
    /\ Len(NotifierCalls(calls[c].log)) = 2
    /\ NotifierCalls(calls[c].log)[2].arg = "threw"
    /\ calls[d].kind = "webhook" /\ Finished(d) /\ calls[d].resp = 200
    /\ Len(NotifierCalls(calls[d].log)) = 1
    /\ NotifierCalls(calls[d].log)[1].arg = "threw"

(***************************************************************************)
(* C17.  Validation and not-found errors write nothing.  A poll without    *)
(* paymentId or tx_ref is answered 400 on arrival; a poll for an unknown   *)
(* payment id is answered 404; a signed webhook without tx_ref is answered *)
(* 400 on arrival; a signed webhook whose tx_ref matches no payment is     *)
(* answered 404.  Such a call issues no write, and none of its steps       *)
(* changes a payment or booking row.                                       *)
(***************************************************************************)
PollInputMissing(c) ==
  calls[c].kind = "poll" /\ (calls[c].paymentId = 0 \/ calls[c].tx_ref = "")

PollUnknownPayment(c) ==
  /\ calls[c].kind = "poll"
  /\ calls[c].paymentId # 0 /\ calls[c].tx_ref # ""
  /\ calls[c].paymentId \notin DOMAIN payments

SignedWebhook(c) == calls[c].kind = "webhook" /\ ~BadSignature(c)

WebhookTxRefMissing(c) == SignedWebhook(c) /\ calls[c].tx_ref = ""

WebhookUnknownTxRef(c) ==
  /\ SignedWebhook(c) /\ calls[c].tx_ref # ""
  /\ \A p \in DOMAIN payments : payments[p].transactionId # calls[c].tx_ref

\* the status such a call is answered with, 0 for any other call
RejectionOf(c) ==
  IF PollInputMissing(c) \/ WebhookTxRefMissing(c) THEN 400
  ELSE IF PollUnknownPayment(c) \/ WebhookUnknownTxRef(c) THEN 404
  ELSE 0

C17_RejectionsWriteNothing ==
  /\ [] \A c \in Calls :
          RejectionOf(c) # 0
            => /\ calls[c].log = <<>>
               /\ RejectionOf(c) = 400 => Finished(c)
               /\ RejectionOf(c) = 404 => calls[c].pc \in {"find", "done"}
               /\ Finished(c) => calls[c].resp = RejectionOf(c)
  /\ [][ \A c \in Calls :
           ((RejectionOf(c) # 0 \/ RejectionOf(c)' # 0) /\ calls'[c] # calls[c])
             => payments' = payments /\ bookings' = bookings ]_vars

\* a rejected poll and a rejected webhook have been answered, one with 400
\* and one with 404
C17_Witness ==
  \E c, d \in Calls :
    /\ Finished(c) /\ Finished(d)
    /\ \/ PollInputMissing(c) /\ WebhookUnknownTxRef(d)
       \/ PollUnknownPayment(c) /\ WebhookTxRefMissing(d)
    /\ calls[c].resp = RejectionOf(c) /\ calls[d].resp = RejectionOf(d)

(***************************************************************************)
(* C18.  When the gateway verify call of a poll throws, that step answers  *)
(* 500: the gateway is not asked again, the call has issued no write and   *)
(* every payment and booking row is as it was.                             *)
(***************************************************************************)
\* the step of request c at the gateway call that brings back no answer
GatewayCallFails(c) ==
  /\ calls[c].kind = "poll" /\ calls[c].pc = "gateway"
  /\ calls'[c] # calls[c]
  /\ calls'[c].paymentStatus = ""

C18_GatewayFailureSurfaces ==
  /\ [][ \A c \in Calls :
           GatewayCallFails(c)
             => /\ Finishes(c) /\ calls'[c].resp = 500
                /\ calls'[c].log = <<>>
                /\ payments' = payments /\ bookings' = bookings ]_vars
  /\ [] \A c \in Calls :
          (calls[c].kind = "poll" /\ Finished(c) /\ calls[c].resp = 500)
            => calls[c].log = <<>> /\ calls[c].paymentStatus = ""

\* a poll of the owner has been answered 500 after the gateway had settled
C18_Witness ==
  \E c \in Calls :
    /\ calls[c].kind = "poll" /\ Finished(c) /\ calls[c].resp = 500
    /\ calls[c].payment.id \in DOMAIN payments
    /\ calls[c].tx_ref \in DOMAIN gateway
    /\ gateway[calls[c].tx_ref] # "pending"

(***************************************************************************)
(* Vocabulary of the properties of initiatePayment                         *)
(***************************************************************************)
InitFinished(i) == inits[i].pc = "done"

\* step by which initiation i gets its response
InitFinishes(i) == inits[i].pc # "done" /\ inits'[i].pc = "done"

\* initiation i took this step
InitiationStep(i) == inits'[i] # inits[i]

\* why the request of initiation i is to be refused, from the request and
\* the tables: "" when nothing is wrong with it
RefusalOf(i) ==
  LET u == inits[i].userId
      b == inits[i].bookingId
      v == inits[i].vendorId
  IN  IF ~InitArrived(i) THEN ""
      ELSE IF inits[i].amount = 0 \/ v = "" \/ b = 0 \/ u = "" THEN "input"
      ELSE IF ClientOfUser[u] = "" THEN "client profile not found"
      ELSE IF b \notin DOMAIN bookings THEN "booking not found"
      ELSE IF BookingClient[b] # ClientOfUser[u] THEN "booking not owned"
      ELSE IF BookingVendor[b] # v THEN "vendor mismatch"
      ELSE IF \/ vendors[v].chapaSubaccountId = ""
              \/ \A a \in chapaSubaccounts : a.type # "ADMIN"
        THEN "accounts not configured"
      ELSE ""

VerificationFailures ==
  { "client profile not found", "booking not found", "booking not owned",
    "vendor mismatch", "accounts not configured" }

\* the status the code answers each verification failure with
StatusOfRefusal(reason) ==
  CASE reason = "client profile not found" -> 400
    [] reason = "booking not found"        -> 404
    [] reason = "booking not owned"        -> 403
    [] reason = "vendor mismatch"          -> 400
    [] reason = "accounts not configured"  -> 500

\* no step of a refused initiation touches a payment or booking row
RefusedWritesNothing ==
  [][ \A i \in Inits :
        (InitiationStep(i) /\ RefusalOf(i)' \in VerificationFailures)
          => payments' = payments /\ bookings' = bookings ]_vars

(***************************************************************************)
(* C14.  Every verification failure of initiatePayment (client profile not *)
(* found, booking not found, booking not owned by the client, vendor not   *)
(* matching, payout accounts not configured) is answered with a 4xx        *)
(* status, and the call creates and changes no payment or booking row.     *)
(***************************************************************************)
C14_VerificationFailure4xx ==
  /\ [] \A i \in Inits :
          RefusalOf(i) \in VerificationFailures
            => /\ inits[i].log = <<>>
               /\ InitFinished(i) => inits[i].resp \in 400..499
  /\ RefusedWritesNothing

\* C14 as amended: a 4xx status, 500 for payout accounts not configured
C14_VerificationFailureStatus ==
  /\ [] \A i \in Inits :
          RefusalOf(i) \in VerificationFailures
            => /\ inits[i].log = <<>>
               /\ inits[i].paymentId = 0
               /\ inits[i].pc \in {"findClient", "findBooking", "findVendor",
                                   "findAdmin", "done"}
               /\ InitFinished(i) => inits[i].resp = StatusOfRefusal(RefusalOf(i))
  /\ RefusedWritesNothing

\* one initiation was refused for the accounts, another for the owner
C14_Witness ==
  \E i, j \in Inits :
    /\ InitFinished(i) /\ RefusalOf(i) = "accounts not configured"
    /\ inits[i].resp = 500
    /\ InitFinished(j) /\ RefusalOf(j) = "booking not owned"
    /\ inits[j].resp = 403
    /\ payments = <<>>

(***************************************************************************)
(* C15.  When the checkout request of initiatePayment fails after the      *)
(* PENDING row was created, the call answers 500 having marked that row    *)
(* FAILED: the row is there with status FAILED, the gateway was asked      *)
(* once, and no step of the call changed a booking.                        *)
(***************************************************************************)
CheckoutFailed(i) == \E k \in DOMAIN inits[i].log :
                       inits[i].log[k] = Effect("chapa.post", inits[i].paymentId, "threw")

CheckoutAttempts(log) ==
  Cardinality({k \in DOMAIN log : log[k].op = "chapa.post"})

C15_CheckoutFailureMarksFailed ==
  /\ [][ \A i \in Inits :
           (CheckoutFailed(i) /\ InitFinishes(i))
             => /\ inits[i].paymentId \in DOMAIN payments'
                /\ payments'[inits[i].paymentId].status = "FAILED"
                /\ inits'[i].resp = 500
                /\ CheckoutAttempts(inits'[i].log) = 1 ]_vars
  /\ [][ \A i \in Inits : InitiationStep(i) => bookings' = bookings ]_vars
  /\ [] \A i \in Inits :
          CheckoutFailed(i)
            => /\ inits[i].pc \in {"markFailed", "done"}
               /\ inits[i].log[1] = Effect("payment.create", inits[i].paymentId, "PENDING")
               /\ CheckoutAttempts(inits[i].log) = 1

\* an initiation whose checkout request failed has answered 500
C15_Witness ==
  \E i \in Inits :
    /\ CheckoutFailed(i) /\ InitFinished(i) /\ inits[i].resp = 500
    /\ payments[inits[i].paymentId].status = "FAILED"
    /\ bookings[inits[i].bookingId].status = "PENDING"

(***************************************************************************)
(* C16.  A payment row is created with status PENDING, adminSplit the      *)
(* tenth and vendorSplit the nine tenths of amount, and adminSplit +       *)
(* vendorSplit = amount; the checkout request carries the shares 10 for    *)
(* the admin account and 90 for the vendor's, 100 together.                *)
(***************************************************************************)
C16_SplitsAddUp ==
  /\ [] \A p \in DOMAIN payments :
          /\ payments[p].adminSplit  = DoubleTimes(payments[p].amount, Tenth)
          /\ payments[p].vendorSplit = DoubleTimes(payments[p].amount, NineTenths)
          /\ DoublePlus(payments[p].adminSplit, payments[p].vendorSplit) = payments[p].amount
  /\ [] \A i \in Inits :
          inits[i].checkout # NoCheckout
            => /\ inits[i].checkout.adminShare = 10
               /\ inits[i].checkout.vendorShare = 90
               /\ inits[i].checkout.adminShare + inits[i].checkout.vendorShare = 100
               /\ inits[i].checkout.adminId = AdminAccount.accountId
               /\ inits[i].checkout.vendorId = vendors[inits[i].vendorId].chapaSubaccountId
  /\ [][ \A p \in DOMAIN payments' :
           p \notin DOMAIN payments => payments'[p].status = "PENDING" ]_vars

(***************************************************************************)
(* C19.  A payment row is created PENDING and never deleted, and the       *)
(* status of an existing row changes only in a step of verifyPayment or    *)
(* handleWebhook.                                                          *)
(***************************************************************************)
CreatedPendingNeverDeleted ==
  [][ /\ DOMAIN payments \subseteq DOMAIN payments'
      /\ \A p \in DOMAIN payments' :
           p \notin DOMAIN payments => payments'[p].status = "PENDING" ]_vars

StatusChanges(p) ==
  p \in DOMAIN payments' /\ payments'[p].status # payments[p].status

C19_OnlyEngineMutates ==
  /\ CreatedPendingNeverDeleted
  /\ [][ \A p \in DOMAIN payments : StatusChanges(p) => EngineStep ]_vars

\* the catch of initiation i marks its payment FAILED
MarksOwnPaymentFailed(i, p) ==
  /\ inits[i].pc = "markFailed" /\ InitFinishes(i)
  /\ inits[i].paymentId = p
  /\ payments'[p].status = "FAILED"

\* C19 as amended: or in the catch of the initiatePayment that created it
C19_EngineOrOwnInitiation ==
  /\ CreatedPendingNeverDeleted
  /\ [][ \A p \in DOMAIN payments :
           StatusChanges(p)
             => \/ EngineStep
                \/ \E i \in Inits : MarksOwnPaymentFailed(i, p) ]_vars

\* one payment was marked FAILED by its initiation, another was completed
\* by the engine
C19_Witness ==
  \E p, q \in DOMAIN payments, i \in Inits, c \in Calls :
    /\ payments[p].status = "FAILED"
    /\ inits[i].paymentId = p /\ CheckoutFailed(i) /\ InitFinished(i)
    /\ payments[q].status = "COMPLETED"
    /\ Finished(c) /\ calls[c].payment.id = q
    /\ Wrote(c, "payment.update", "COMPLETED")

(***************************************************************************)
(* C20.  testEmailConfiguration always returns a result, and runs its      *)
(* stages in the order validation, configuration, connection, sending.  It *)
(* returns success with stage 'completed' exactly when a recipient was     *)
(* given, EMAIL_USER and EMAIL_PASSWORD are set, the transport verified    *)
(* and the test email was sent.  Otherwise it returns failure with the     *)
(* stage of the first check that failed ('error' when the transporter      *)
(* could not be created), and that stage is the last it performed.         *)
(***************************************************************************)
MailTestFinished(m) == mailTests[m].pc = "done"

StageOrder == <<"validation", "configuration", "transporter", "connection", "sending">>

\* the stage of the first check of call m that failed, "" if none did
FirstFailure(m) ==
  IF mailTests[m].testEmail = "" THEN "validation"
  ELSE IF env.EMAIL_USER = "" \/ env.EMAIL_PASSWORD = "" THEN "configuration"
  ELSE IF mailTests[m].created = "threw" THEN "error"
  ELSE IF mailTests[m].verified \in {"false", "threw"} THEN "connection"
  ELSE IF mailTests[m].sent = "threw" THEN "sending"
  ELSE ""

\* the name under which a stage is reported
ReportedAs(stage) == IF stage = "transporter" THEN "error" ELSE stage

C20_StagesInOrder ==
  \A m \in MailTests :
    /\ mailTests[m].stages = SubSeq(StageOrder, 1, Len(mailTests[m].stages))
    /\ MailTestFinished(m)
         => /\ mailTests[m].result # NoResult
            /\ mailTests[m].result.success
                 <=> /\ mailTests[m].testEmail # ""
                     /\ env.EMAIL_USER # "" /\ env.EMAIL_PASSWORD # ""
                     /\ mailTests[m].verified = "true"
                     /\ mailTests[m].sent = "sent"
            /\ mailTests[m].result.success
                 => /\ mailTests[m].result.stage = "completed"
                    /\ mailTests[m].stages = StageOrder
            /\ ~mailTests[m].result.success
                 => /\ mailTests[m].result.stage = FirstFailure(m)
                    /\ ReportedAs(mailTests[m].stages[Len(mailTests[m].stages)])
                         = FirstFailure(m)
                    /\ mailTests[m].stages[Len(mailTests[m].stages)] # "sending"
                         => mailTests[m].sent = ""

\* one test has completed, another stopped at the connection stage without
\* sending
C20_Witness ==
  \E m, n \in MailTests :
    /\ MailTestFinished(m) /\ mailTests[m].result = [success |-> TRUE, stage |-> "completed"]
    /\ MailTestFinished(n) /\ mailTests[n].result = [success |-> FALSE, stage |-> "connection"]
    /\ mailTests[n].verified = "false" /\ mailTests[n].sent = ""

(***************************************************************************)
(* C21.  A poll changes a payment only according to the gateway status of  *)
(* the payment's own transaction reference: whenever a poll writes         *)
(* COMPLETED onto payment p, or confirms p's booking, the gateway holds    *)
(* the transaction payments[p].transactionId as successful, whatever       *)
(* tx_ref the caller supplied.                                             *)
(***************************************************************************)
\* the gateway reports the transaction of payment p as successful; the
\* transaction of p is the one initiatePayment opened for it, which the row
\* names once the reference has been saved
OwnTransactionSucceeded(p) ==
  /\ payments[p].transactionId \in {"", TxRefOfPayment[p]}
  /\ TxRefOfPayment[p] \in DOMAIN gateway
  /\ gateway[TxRefOfPayment[p]] = "success"

\* poll c writes COMPLETED onto its payment, or confirms its booking
PollCompletes(c) ==
  /\ calls[c].kind = "poll"
  /\ calls[c].pc \in {"updatePayment", "updateBooking"}
  /\ calls'[c].pc # calls[c].pc
  /\ calls[c].paymentStatus = "COMPLETED"

C21_OwnReferenceOnly ==
  [][ \A c \in Calls :
        PollCompletes(c) => OwnTransactionSucceeded(calls[c].payment.id) ]_vars

(***************************************************************************)
(* C22.  A correctly signed webhook for a transaction reference that       *)
(* initiatePayment sent to the gateway finds its payment: in every         *)
(* interleaving of initiatePayment with webhook delivery it is not         *)
(* answered 404.                                                           *)
(***************************************************************************)
\* initiatePayment has sent the reference of webhook c to the gateway
SentToGateway(c) ==
  \E i \in Inits :
    /\ inits[i].tx_ref = calls[c].tx_ref
    /\ \E k \in DOMAIN inits[i].log : inits[i].log[k] = Effect("chapa.post", inits[i].paymentId, "answered")

C22_WebhookFindsPayment ==
  [][ \A c \in Calls :
        (Finishes(c) /\ SignedWebhook(c) /\ SentToGateway(c))
          => calls'[c].resp # 404 ]_vars

(***************************************************************************)
(* C23.  In verifyPayment and in handleWebhook alike, the effects of one   *)
(* call come in the order payment-status write, booking confirmation,      *)
(* sendPaymentCompletionToVendor, sendNewBookingToVendor: a call makes no  *)
(* notifier call for a payment before it has itself written COMPLETED      *)
(* onto that payment.                                                      *)
(***************************************************************************)
\* the place of an effect in the order of a call
OrderOf(e) ==
  CASE e.op = "payment.update" -> 1
    [] e.op = "booking.update" -> 2
    [] e.op = "sendPaymentCompletionToVendor" -> 3
    [] e.op = "sendNewBookingToVendor" -> 4

C23_WriteBeforeNotify ==
  \A c \in Calls :
    LET log == calls[c].log
    IN  /\ \A j, k \in DOMAIN log : j < k => OrderOf(log[j]) < OrderOf(log[k])
        /\ \A k \in DOMAIN log :
             IsNotifierCall(log[k])
               => /\ log[1] = Effect("payment.update", log[k].id, "COMPLETED")
                  /\ log[k].op = "sendNewBookingToVendor"
                       => log[k - 1].op = "sendPaymentCompletionToVendor"

\* a poll and a webhook have each written the payment, confirmed the
\* booking and made both notifier calls
C23_Witness ==
  \E c, d \in Calls :
    /\ calls[c].kind = "poll" /\ calls[d].kind = "webhook"
    /\ \A x \in {c, d} :
         /\ Finished(x)
         /\ [k \in DOMAIN calls[x].log |-> calls[x].log[k].op]
              = <<"payment.update", "booking.update",
                  "sendPaymentCompletionToVendor", "sendNewBookingToVendor">>

(***************************************************************************)
(* C24.  The number of notifier calls made for a payment does not depend   *)
(* on the order of arrival: when a poll and a webhook, handled one after   *)
(* the other, both report success for the same payment whose booking was   *)
(* PENDING, and no email fails, together they make two notifier calls,     *)
(* the number the poll followed by the webhook makes, whichever of the     *)
(* two came first.                                                         *)
(***************************************************************************)
\* call c was handled first and reported success for a payment with a
\* PENDING booking, call d reported success for the same payment after it
SuccessThenSuccess(c, d) ==
  /\ c < d
  /\ {calls[c].kind, calls[d].kind} = {"poll", "webhook"}
  /\ Finished(c) /\ Finished(d)
  /\ calls[c].resp = 200 /\ calls[d].resp = 200
  /\ calls[c].paymentStatus = "COMPLETED" /\ calls[d].paymentStatus = "COMPLETED"
  /\ calls[c].payment.id = calls[d].payment.id
  /\ BookingSeen(c).status = "PENDING"
  /\ BookingSeen(d).status = "CONFIRMED"
  /\ NoEmailThrew(calls[c].log) /\ NoEmailThrew(calls[d].log)

C24_SameNotifierCallsEitherOrder ==
  \A c, d \in Calls :
    SuccessThenSuccess(c, d)
      => Len(NotifierCalls(calls[c].log)) + Len(NotifierCalls(calls[d].log)) = 2

(***************************************************************************)
(* C25.  The webhook fails closed: while CHAPA_WEBHOOK_SECRET is unset,    *)
(* every webhook request, whatever its signature header and its payload,   *)
(* is answered 401 at once, makes no call and changes no payment or        *)
(* booking row.                                                            *)
(***************************************************************************)
\* a step of webhook request c
WebhookStep(c) == calls'[c] # calls[c] /\ calls'[c].kind = "webhook"

C25_FailsClosedWithoutSecret ==
  [][ webhookSecret = ""
        => \A c \in Calls :
             WebhookStep(c)
               => /\ calls'[c].pc = "done" /\ calls'[c].resp = 401
                  /\ calls'[c].log = <<>>
                  /\ payments' = payments /\ bookings' = bookings ]_vars

\* without a secret, a webhook signed by the gateway and one signed under
\* the empty key have both been refused
C25_Witness ==
  /\ webhookSecret = ""
  /\ \E c, d \in Calls :
       /\ Finished(c) /\ calls[c].kind = "webhook" /\ calls[c].resp = 401
       /\ calls[c].signature = Hmac(GatewaySecret, Body("tx1", W_success))
       /\ Finished(d) /\ calls[d].kind = "webhook" /\ calls[d].resp = 401
       /\ calls[d].signature = Hmac("", Body("tx1", W_success))
       /\ calls[d].tx_ref = "tx1" /\ calls[d].status = W_success

(***************************************************************************)
(* C26.  A booking is paid at most once: after any interleaving of         *)
(* initiatePayment, verifyPayment and handleWebhook calls, at most one     *)
(* payment row with status PENDING or COMPLETED references a given         *)
(* booking.                                                                *)
(***************************************************************************)
\* the payments of booking b that are open or paid
LivePayments(b) ==
  {p \in DOMAIN payments : /\ payments[p].bookingId = b
                           /\ payments[p].status \in {"PENDING", "COMPLETED"}}

C26_BookingPaidOnce ==
  \A b \in BookingIds : Cardinality(LivePayments(b)) <= 1

(***************************************************************************)
(* Vocabulary of the properties of the service listings                    *)
(***************************************************************************)
SvcFinished(c) == svcCalls[c].pc = "done"

\* step by which service request c gets its response
SvcFinishes(c) == svcCalls[c].pc # "done" /\ svcCalls'[c].pc = "done"

\* a step of service request c
SvcStep(c) == svcCalls'[c] # svcCalls[c]

(***************************************************************************)
(* C27.  getServiceById answers 200 with the service when the service      *)
(* exists and the status of its vendor is APPROVED, 403 when the vendor is *)
(* not APPROVED, and 404 when no service has the given id.                 *)
(***************************************************************************)
C27_GetServiceByIdAnswers ==
  [][ \A c \in SvcCalls :
        (svcCalls[c].op = "get" /\ SvcFinishes(c))
          => LET id == svcCalls[c].serviceId
             IN  IF id \notin DOMAIN services
                   THEN svcCalls'[c].resp = 404
                 ELSE IF vendors[services[id].vendorId].status = "APPROVED"
                   THEN /\ svcCalls'[c].resp = 200
                        /\ svcCalls'[c].body = ServiceObject(id, services[id])
                 ELSE svcCalls'[c].resp = 403 ]_vars

(***************************************************************************)
(* C28.  A vendor can delete or update only its own services:              *)
(* deleteService and updateService called by a vendor whose id differs     *)
(* from service.vendorId answer 403, an unknown serviceId is answered 404, *)
(* and in both cases the service rows and the stored images are            *)
(* unchanged.  A call writes a row or a file only for a service of its own *)
(* vendor.                                                                 *)
(***************************************************************************)
\* the vendor of the caller of request c looks up the service
LooksUpService(c) ==
  /\ svcCalls[c].op \in {"delete", "update"}
  /\ svcCalls[c].pc = "findService"
  /\ SvcStep(c)

\* the vendor the caller of request c is, "" if none
CallerVendor(c) ==
  IF \E v \in VendorIds : vendors[v].userId = svcCalls[c].userId
    THEN CHOOSE v \in VendorIds : vendors[v].userId = svcCalls[c].userId
    ELSE ""

\* request c is refused with the status, and nothing stored has changed
RefusedUnchanged(c, status) ==
  /\ svcCalls'[c].pc = "done" /\ svcCalls'[c].resp = status
  /\ svcCalls'[c].log = <<>>
  /\ services' = services /\ files' = files

C28_OnlyOwnServices ==
  [][ \A c \in SvcCalls :
        /\ LooksUpService(c)
             => LET id == svcCalls[c].serviceId
                IN  /\ id \notin DOMAIN services => RefusedUnchanged(c, 404)
                    /\ (id \in DOMAIN services /\ services[id].vendorId # CallerVendor(c))
                         => RefusedUnchanged(c, 403)
        /\ (SvcStep(c) /\ (services' # services \/ files' # files))
             => /\ svcCalls[c].op \in {"delete", "update"}
                /\ CallerVendor(c) # ""
                /\ svcCalls'[c].service.vendorId = CallerVendor(c) ]_vars

\* an update with an image by another vendor was refused with 403, a
\* deletion of an unknown service with 404; the service and its image are
\* as they were
C28_Witness ==
  \E c, d \in SvcCalls :
    /\ SvcFinished(c) /\ svcCalls[c].op = "update" /\ svcCalls[c].file
    /\ svcCalls[c].userId = "w2" /\ svcCalls[c].serviceId = "s1"
    /\ svcCalls[c].resp = 403
    /\ SvcFinished(d) /\ svcCalls[d].op = "delete" /\ svcCalls[d].serviceId = "s9"
    /\ svcCalls[d].userId = "w1" /\ svcCalls[d].resp = 404
    /\ services = StoredServices /\ files = StoredFiles

(***************************************************************************)
(* C29.  The chat server keeps isOnline in step with the socket            *)
(* connections: once every handler has finished, a user's isOnline is true *)
(* exactly when that user has at least one connected socket.               *)
(***************************************************************************)
\* no query of a connection handler is outstanding and no disconnect
\* handler is running
ChatHandlersFinished ==
  \A s \in Sockets : /\ sockets[s].markOnline # "pending"
                     /\ sockets[s].state # "disconnecting"

ConnectedSockets(u) ==
  {s \in Sockets : sockets[s].user = u /\ sockets[s].state = "connected"}

C29_OnlineIffConnected ==
  ChatHandlersFinished
    => \A u \in Users : isOnline[u] <=> ConnectedSockets(u) # {}

====
